---------------------------- MODULE Spec2Model ----------------------------
(***************************************************************************)
(* State-machine model of the polit_backend authentication core: the       *)
(* user / user_detail / session / password_reset_token tables              *)
(* (models/user_model.py), the service functions of                        *)
(* service/user_service.py, the two routers routes/auth_routes.py and      *)
(* routes/user_routes.py, and the session sweep of utils/scheduler.py.     *)
(*                                                                         *)
(* Time is a natural number of clock ticks.  Durations are scaled to       *)
(* ticks, keeping their order (token lifetime < session age limit) and     *)
(* the strictness of every comparison the code makes.                      *)
(***************************************************************************)
EXTENDS Integers, Sequences, FiniteSets, TLC

\* ------------------------------------------------------------- bounds
MaxSessions == 2
MaxTokens == 2
MaxTime == 2

\* ------------------------------------------------- program constants
\* get_current_user: timedelta(days=5), in ticks
SessionAgeLimit == 1
\* forgot_password: timedelta(hours=1), in ticks
ResetTokenLifetime == 1
\* create_initial_admin_if_needed: role_id=1
AdminRoleId == 1

Range(s) == {s[i] : i \in DOMAIN s}

NULL == -1
NoCookie == 0

\* role table after initialize_roles(): ids in insertion order
default_roles == <<"admin", "system_admin", "user">>
\* os.getenv("ADMIN_EMAIL")
ADMIN_EMAIL == "admin@x"
ADMIN_FULL_NAME == "Admin"

Emails == {ADMIN_EMAIL, "u1@x"}
FullNames == {"n1"}
\* role names a request may carry; "ghost" is in no role row
RoleNames == {"admin", "user", "ghost"}
\* passwords a client may choose or type
UserPasswords == {"p", "q"}
\* values generate_temp_password() may return
TempPasswords == <<"t1", "t2">>
Passwords == UserPasswords \cup Range(TempPasswords)
\* values of SESSION_TIMEOUT_MINUTES the environment may set, in ticks
TimeoutChoices == {SessionAgeLimit - 1, SessionAgeLimit, SessionAgeLimit + 1}

SessionIds == 1..MaxSessions
TokenIds == 1..MaxTokens
Cookies == {NoCookie} \cup SessionIds

VARIABLES
    started,                 \* startup_event has run
    user,                    \* table "user": sequence of rows, id = index
    user_detail,             \* table "user_detail": sequence of rows
    session,                 \* table "session": sequence of rows
    password_reset_token,    \* table "password_reset_token": set of rows
    token_seq,               \* number of reset tokens issued so far
    now,                     \* the clock
    SESSION_TIMEOUT_MINUTES, \* scheduler's configured timeout
    history,                 \* history: pw_origin[u], who wrote user u's
                             \* password last ("system" or "user");
                             \* used, the reset tokens a reset consumed
    last,                    \* the last request and its response
    inflight,                \* the create_user and update_user calls that
                             \* are between two of their database steps
    s3,                      \* the bucket: keys of the stored objects
    file_uploads,            \* table "file_uploads": set of rows
    file_uploads_id_seq,     \* the SERIAL sequence of file_uploads.id
    active_connections,      \* manager.active_connections: for each key
                             \* (topic) the list of its sockets
    wire,                    \* send_json calls: those of the last
                             \* broadcast (tried) and what arrived (sent)
    dash                     \* a dashboard request: the closed sessions it
                             \* reads, its clock, the payloads computed

\* what the file, socket and dashboard handlers work on
side == <<s3, file_uploads, file_uploads_id_seq, active_connections, wire,
          dash>>

vars == <<started, user, user_detail, session, password_reset_token,
          token_seq, now, SESSION_TIMEOUT_MINUTES, history, last, inflight,
          side>>

\* ------------------------------------------------------------ helpers

\* pbkdf2_sha256.hash: a digest that only the same password verifies
hash_password(password) == <<"pbkdf2_sha256", password>>

verify_password(password, hashed) == hashed = hash_password(password)

\* get_role_id / select(Role).where(Role.name == ...): 0 when absent
RoleIdOf(name) ==
    IF \E i \in DOMAIN default_roles : default_roles[i] = name
    THEN CHOOSE i \in DOMAIN default_roles : default_roles[i] = name
    ELSE 0

UserIds == DOMAIN user

\* select(User).where(User.username == username): 0 when absent
UserByName(username) ==
    IF \E u \in UserIds : user[u].username = username
    THEN CHOOSE u \in UserIds : user[u].username = username
    ELSE 0

\* the user_detail row of a user: 0 when absent
DetailOf(u) ==
    IF \E d \in DOMAIN user_detail : user_detail[d].user_id = u
    THEN CHOOSE d \in DOMAIN user_detail : user_detail[d].user_id = u
    ELSE 0

\* update(Session).where(user_id == u, end_time IS NULL).values(end_time=t)
EndSessionsOf(u, t) ==
    [i \in DOMAIN session |->
        IF session[i].user_id = u /\ session[i].end_time = NULL
        THEN [session[i] EXCEPT !.end_time = t]
        ELSE session[i]]

\* The last request served: its handler (op), the status code and detail
\* of the response, the user it resolved or acted on (who: 0 for none), the
\* role and redirect_to_change_password fields of the response body,
\* the session cookie or reset token it presented (key: kept for
\* get_current_user and reset-password; for a login the session cookie the
\* response sets; for a create_user or update_user
\* call taken step by step, the database step it ended at; 0 otherwise),
\* and the recipients of the emails it sent or enqueued (mail).
Response(op, code, detail, who) ==
    [op |-> op, code |-> code, detail |-> detail, who |-> who,
     role |-> "-", redirect |-> FALSE, key |-> 0, mail |-> {}]

\* ---------------------------------------------------------------- Init
\* an empty bucket and table, a fresh ConnectionManager (defaultdict(list)
\* without keys), no dashboard request
NoPayload == [formatted |-> <<0, 0>>, average |-> <<0, 1>>, change |-> 0,
              current_month |-> 0]

InitSide ==
    /\ s3 = {}
    /\ file_uploads = {}
    /\ file_uploads_id_seq = 0
    /\ active_connections = [key \in {} |-> <<>>]
    /\ wire = [tried |-> <<>>, sent |-> {}]
    /\ dash = [sessions |-> <<>>, clock |-> <<0, 1>>, rest |-> NoPayload,
               ws |-> NoPayload]

Init ==
    /\ started = FALSE
    /\ user = <<>>
    /\ user_detail = <<>>
    /\ session = <<>>
    /\ password_reset_token = {}
    /\ token_seq = 0
    /\ now = 0
    /\ SESSION_TIMEOUT_MINUTES = SessionAgeLimit
    /\ history = [pw_origin |-> <<>>, used |-> {}]
    /\ last = Response("init", 0, "-", 0)
    /\ inflight = {}
    /\ InitSide


\* ------------------------------------------------------- user service
\* generate_temp_password(): secrets.token_urlsafe(8), 64 random bits.  The
\* draw is a value the stored hash it replaces does not verify; which
\* value is immaterial, so the first such element of TempPasswords stands
\* for it.
generate_temp_password(hashed) ==
    IF verify_password(TempPasswords[1], hashed) THEN TempPasswords[2]
    ELSE TempPasswords[1]

NewUser(username, password, role_id, status) ==
    [username |-> username, password_hash |-> hash_password(password),
     role_id |-> role_id, status |-> status, is_temp_password |-> TRUE]

\* UserDetail(...) without status: the column default True applies
NewDetail(user_id, email, full_name) ==
    [user_id |-> user_id, email |-> email, full_name |-> full_name,
     status |-> TRUE]

\* select(User).where(User.role_id == 1): ids of the admins
existing_admin == {u \in UserIds : user[u].role_id = AdminRoleId}

\* send_email outcomes: TRUE when the relay accepts the message, FALSE
\* when aiosmtplib.send raises (send_email logs and re-raises)
MailOutcomes == BOOLEAN
\* the relay is up
Delivered == {TRUE}

\* The outcome of create_initial_admin_if_needed(db) with temp password tp
\* when send_email behaves as smtp_ok says: the tables after it, the id it
\* returns (0 when it raised), the recipients of the emails it sent.
create_initial_admin_if_needed(tp, smtp_ok) ==
    IF existing_admin # {}
    THEN [ok |-> TRUE, id |-> CHOOSE u \in existing_admin :
                                 \A v \in existing_admin : u <= v,
          detail |-> "-", mail |-> {},
          user |-> user, user_detail |-> user_detail,
          pw_origin |-> history.pw_origin]
    ELSE IF UserByName(ADMIN_EMAIL) # 0
    THEN \* first commit: unique violation on user.username, not caught
         [ok |-> FALSE, id |-> 0, detail |-> "IntegrityError", mail |-> {},
          user |-> user, user_detail |-> user_detail,
          pw_origin |-> history.pw_origin]
    ELSE LET id == Len(user) + 1
             u1 == Append(user, NewUser(ADMIN_EMAIL, tp, AdminRoleId, TRUE))
             o1 == Append(history.pw_origin, "system")
         IN IF \E d \in DOMAIN user_detail : user_detail[d].email = ADMIN_EMAIL
            THEN \* second commit: unique violation on user_detail.email
                 [ok |-> FALSE, id |-> 0, detail |-> "IntegrityError",
                  mail |-> {},
                  user |-> u1, user_detail |-> user_detail, pw_origin |-> o1]
            ELSE \* both rows are committed, then send_email is awaited
                 [ok |-> smtp_ok, id |-> IF smtp_ok THEN id ELSE 0,
                  detail |-> IF smtp_ok THEN "-" ELSE "SMTPException",
                  mail |-> IF smtp_ok THEN {ADMIN_EMAIL} ELSE {},
                  user |-> u1,
                  user_detail |->
                      Append(user_detail,
                             NewDetail(id, ADMIN_EMAIL, ADMIN_FULL_NAME)),
                  pw_origin |-> o1]

\* app.py startup_event: runs before any request is served; when it raises
\* the application does not start, and is started again
startup_event(smtp_ok) ==
    /\ ~started
    /\ LET r == create_initial_admin_if_needed(generate_temp_password(<<>>),
                                               smtp_ok)
       IN   /\ user' = r.user
            /\ user_detail' = r.user_detail
            /\ history' = [history EXCEPT !.pw_origin = r.pw_origin]
            /\ last' = [Response("startup_event", IF r.ok THEN 200 ELSE 500,
                                 r.detail, r.id) EXCEPT !.mail = r.mail]
            /\ started' = r.ok
    /\ UNCHANGED <<session, password_reset_token, token_seq, now,
                   SESSION_TIMEOUT_MINUTES, side,
                   inflight>>

\* A faulty login_user: it verifies the password before it looks at the
\* status, so an inactive account with a wrong password is answered 401.
login_user_password_first(username, password) ==
    LET u == UserByName(username)
    IN IF u = 0 \/ user[u].role_id \notin DOMAIN default_roles
       THEN [code |-> 401, id |-> 0]
       ELSE IF ~verify_password(password, user[u].password_hash)
            THEN [code |-> 401, id |-> u]
       ELSE IF ~user[u].status THEN [code |-> 403, id |-> u]
       ELSE [code |-> 200, id |-> u]

\* login_user(db, username, password): the status it leads to and the user
login_user(username, password) ==
    LET u == UserByName(username)
    IN IF u = 0 \/ user[u].role_id \notin DOMAIN default_roles
       THEN [code |-> 401, id |-> 0]
       ELSE IF ~user[u].status THEN [code |-> 403, id |-> u]
       ELSE IF ~verify_password(password, user[u].password_hash)
            THEN [code |-> 401, id |-> u]
       ELSE [code |-> 200, id |-> u]

\* A faulty create_session: a new login ends the user's earlier sessions.
create_session_single(user_id) ==
    Append(EndSessionsOf(user_id, now),
           [session_uuid |-> Len(session) + 1, user_id |-> user_id,
            start_time |-> now, end_time |-> NULL])

\* create_session(db, user_id): a row with a fresh uuid, start_time = now
create_session(user_id) ==
    Append(session, [session_uuid |-> Len(session) + 1, user_id |-> user_id,
                     start_time |-> now, end_time |-> NULL])

\* POST /login (both routers)
login(username, password) ==
    LET r == login_user(username, password)
    IN /\ started
       /\ IF r.code = 200
          THEN /\ Len(session) < MaxSessions
               /\ session' = create_session(r.id)
               /\ last' = [Response("login", 200, "-", r.id)
                             EXCEPT !.redirect = user[r.id].is_temp_password,
                                    !.key = Len(session) + 1]
          ELSE /\ session' = session
               /\ last' = Response("login", r.code, "-", 0)
       /\ UNCHANGED <<started, user, user_detail, password_reset_token,
                      token_seq, now, SESSION_TIMEOUT_MINUTES, side, history,
                   inflight>>

\* select(Session).where(session_uuid == cookie, end_time IS NULL)
ActiveSession(cookie) ==
    cookie \in DOMAIN session /\ session[cookie].end_time = NULL

\* A faulty get_current_user: it expires a session whose age equals the
\* limit (>= where the code has >).
get_current_user_at_limit(cookie) ==
    IF cookie = NoCookie
    THEN [code |-> 401, detail |-> "Not authenticated", id |-> 0,
          role |-> "-", expired |-> FALSE]
    ELSE IF ~ActiveSession(cookie)
    THEN [code |-> 401, detail |-> "Invalid or expired session", id |-> 0,
          role |-> "-", expired |-> FALSE]
    ELSE IF now - session[cookie].start_time >= SessionAgeLimit
    THEN [code |-> 401, detail |-> "Session expired", id |-> 0,
          role |-> "-", expired |-> TRUE]
    ELSE LET u == session[cookie].user_id
         IN IF u \notin UserIds \/ DetailOf(u) = 0
               \/ user[u].role_id \notin DOMAIN default_roles
            THEN [code |-> 404, detail |-> "User not found", id |-> 0,
                  role |-> "-", expired |-> FALSE]
            ELSE [code |-> 200, detail |-> "-", id |-> u,
                  role |-> default_roles[user[u].role_id], expired |-> FALSE]

\* get_current_user(session_uuid, db): status, detail, the user resolved,
\* and whether it marked the session ended
get_current_user(cookie) ==
    IF cookie = NoCookie
    THEN [code |-> 401, detail |-> "Not authenticated", id |-> 0,
          role |-> "-", expired |-> FALSE]
    ELSE IF ~ActiveSession(cookie)
    THEN [code |-> 401, detail |-> "Invalid or expired session", id |-> 0,
          role |-> "-", expired |-> FALSE]
    ELSE IF now - session[cookie].start_time > SessionAgeLimit
    THEN [code |-> 401, detail |-> "Session expired", id |-> 0,
          role |-> "-", expired |-> TRUE]
    ELSE LET u == session[cookie].user_id
         IN IF u \notin UserIds \/ DetailOf(u) = 0
               \/ user[u].role_id \notin DOMAIN default_roles
            THEN [code |-> 404, detail |-> "User not found", id |-> 0,
                  role |-> "-", expired |-> FALSE]
            ELSE [code |-> 200, detail |-> "-", id |-> u,
                  role |-> default_roles[user[u].role_id], expired |-> FALSE]

\* admin_required(current_user = Depends(get_current_user))
admin_required(cookie) ==
    LET r == get_current_user(cookie)
    IN IF r.code # 200 THEN r
       ELSE IF r.role # "admin"
       THEN [r EXCEPT !.code = 403, !.detail = "Admin privileges required."]
       ELSE r

\* GET /me and every dashboard GET: Depends(get_current_user)
read_current_user(cookie) ==
    LET r == get_current_user(cookie)
    IN /\ started
       /\ session' = IF r.expired
                     THEN [session EXCEPT ![cookie].end_time = now]
                     ELSE session
       /\ last' = [Response("get_current_user", r.code, r.detail, r.id)
                     EXCEPT !.role = r.role, !.key = cookie]
       /\ UNCHANGED <<started, user, user_detail, password_reset_token,
                      token_seq, now, SESSION_TIMEOUT_MINUTES, side, history,
                   inflight>>

\* POST /logout of routes/auth_routes.py
auth_router_logout(cookie) ==
    /\ started
    /\ IF cookie = NoCookie
       THEN /\ session' = session
            /\ last' = Response("logout", 401, "Not authenticated", 0)
       ELSE /\ session' = [i \in DOMAIN session |->
                             IF i = cookie /\ session[i].end_time = NULL
                             THEN [session[i] EXCEPT !.end_time = now]
                             ELSE session[i]]
            /\ last' = Response("logout", 200, "-", 0)
    /\ UNCHANGED <<started, user, user_detail, password_reset_token,
                   token_seq, now, SESSION_TIMEOUT_MINUTES, side, history,
                   inflight>>

\* end_session(db, uuid): the row with that uuid, ended or not, gets
\* end_time = now
end_session(uuid) ==
    /\ started
    /\ session' = [i \in DOMAIN session |->
                     IF i = uuid THEN [session[i] EXCEPT !.end_time = now]
                     ELSE session[i]]
    /\ last' = [Response("end_session", 0, "-", 0) EXCEPT !.key = uuid]
    /\ UNCHANGED <<started, user, user_detail, password_reset_token,
                   token_seq, now, SESSION_TIMEOUT_MINUTES, side, history,
                   inflight>>

\* POST /logout of routes/user_routes.py
router_logout(cookie) ==
    /\ started
    /\ session' = [i \in DOMAIN session |->
                     IF cookie # NoCookie /\ i = cookie
                        /\ session[i].end_time = NULL
                     THEN [session[i] EXCEPT !.end_time = now]
                     ELSE session[i]]
    /\ last' = Response("logout", 200, "-", 0)
    /\ UNCHANGED <<started, user, user_detail, password_reset_token,
                   token_seq, now, SESSION_TIMEOUT_MINUTES, side, history,
                   inflight>>

\* A faulty password write: it leaves is_temp_password as it was.
SetPassword_keep_flag(u, new_password) ==
    [user EXCEPT ![u] = [@ EXCEPT !.password_hash = hash_password(new_password)]]

\* The password write of change-password and reset-password
SetPassword(u, new_password) ==
    [user EXCEPT ![u] = [@ EXCEPT !.password_hash = hash_password(new_password),
                                  !.is_temp_password = FALSE]]

\* Faulty checks: the confirmation is not compared.
change_password_checks_no_confirm(u, old_password, new_password, confirm_password, wrong_old) ==
    IF u \notin UserIds THEN [code |-> 404, detail |-> "User not found"]
    ELSE IF ~verify_password(old_password, user[u].password_hash)
    THEN [code |-> 400, detail |-> wrong_old]
    ELSE [code |-> 200, detail |-> "-"]

\* What POST /change-password answers once the session row is found:
\* the user is loaded, the old password verified (wrong_old is the detail
\* the router gives when it is not), the confirmation compared
change_password_checks(u, old_password, new_password, confirm_password, wrong_old) ==
    IF u \notin UserIds THEN [code |-> 404, detail |-> "User not found"]
    ELSE IF ~verify_password(old_password, user[u].password_hash)
    THEN [code |-> 400, detail |-> wrong_old]
    ELSE IF new_password # confirm_password
    THEN [code |-> 400, detail |-> "New passwords do not match"]
    ELSE [code |-> 200, detail |-> "-"]

\* POST /change-password of routes/auth_routes.py
auth_router_change_password(cookie, old_password, new_password, confirm_password) ==
    LET found == cookie # NoCookie /\ ActiveSession(cookie)
        u == IF found THEN session[cookie].user_id ELSE 0
        r == IF cookie = NoCookie
             THEN [code |-> 401, detail |-> "Not authenticated"]
             ELSE IF ~found
             THEN [code |-> 401, detail |-> "Invalid session"]
             ELSE change_password_checks(u, old_password, new_password,
                                         confirm_password,
                                         "Old password is incorrect")
    IN /\ started
       /\ IF r.code = 200
          THEN /\ user' = SetPassword(u, new_password)
               /\ history' = [history EXCEPT !.pw_origin[u] = "user"]
               /\ session' = EndSessionsOf(u, now)
          ELSE UNCHANGED <<user, history, session>>
       /\ last' = Response("change_password", r.code, r.detail, u)
       /\ UNCHANGED <<started, user_detail, password_reset_token, token_seq,
                      now, SESSION_TIMEOUT_MINUTES, side,
                   inflight>>

\* POST /change-password of routes/user_routes.py
router_change_password(cookie, old_password, new_password, confirm_password) ==
    LET found == cookie # NoCookie /\ cookie \in DOMAIN session
        u == IF found THEN session[cookie].user_id ELSE 0
        r == IF cookie = NoCookie
             THEN [code |-> 401, detail |-> "Not authenticated"]
             ELSE IF ~found
             THEN [code |-> 401, detail |-> "Invalid session"]
             ELSE change_password_checks(u, old_password, new_password,
                                         confirm_password,
                                         "Old (temporary) password is incorrect")
    IN /\ started
       /\ IF r.code = 200
          THEN /\ user' = SetPassword(u, new_password)
               /\ history' = [history EXCEPT !.pw_origin[u] = "user"]
          ELSE UNCHANGED <<user, history>>
       /\ last' = Response("change_password", r.code, r.detail, u)
       /\ UNCHANGED <<started, user_detail, session, password_reset_token,
                      token_seq, now, SESSION_TIMEOUT_MINUTES, side,
                   inflight>>

\* select(User).where(User.user_detail.has(email=email)): 0 when absent
UserByEmail(email) ==
    IF \E d \in DOMAIN user_detail :
           user_detail[d].email = email /\ user_detail[d].user_id \in UserIds
    THEN user_detail[CHOOSE d \in DOMAIN user_detail :
                         user_detail[d].email = email].user_id
    ELSE 0

\* the row POST /forgot-password inserts for user u: a fresh uuid4 token,
\* expiring in one hour
\* A faulty token row: it expires at the moment it is issued.
NewResetToken_no_lifetime(u) ==
    [token |-> token_seq + 1, user_id |-> u, expiration |-> now]

NewResetToken(u) ==
    [token |-> token_seq + 1, user_id |-> u,
     expiration |-> now + ResetTokenLifetime]

\* POST /forgot-password (both routers).  The reset email is a background
\* task added after the commit: what it raises reaches no one.
forgot_password(email, smtp_ok) ==
    LET u == UserByEmail(email)
    IN /\ started
       /\ IF u = 0
          THEN /\ UNCHANGED <<password_reset_token, token_seq>>
               /\ last' = Response("forgot_password", 404, "User not found", 0)
          ELSE /\ token_seq < MaxTokens
               /\ token_seq' = token_seq + 1
               /\ password_reset_token' = password_reset_token \cup
                      {NewResetToken(u)}
               /\ last' = [Response("forgot_password", 200, "-", u)
                             EXCEPT !.mail = {email}]
       /\ UNCHANGED <<started, user, user_detail, session, now,
                      SESSION_TIMEOUT_MINUTES, side, history,
                   inflight>>

\* select(PasswordResetToken).where(token == payload.token): the rows
reset_rec(token) == {r \in password_reset_token : r.token = token}

\* What POST /reset-password answers; missing_user is the status of a
\* token whose user row is gone (404 in auth_routes, an AttributeError in
\* user_routes)
reset_password_checks(token, missing_user) ==
    IF reset_rec(token) = {}
    THEN [code |-> 400, detail |-> "Invalid reset token"]
    ELSE LET rec == CHOOSE r \in reset_rec(token) : TRUE
         IN IF rec.expiration < now
            THEN [code |-> 400, detail |-> "Reset token has expired"]
            ELSE IF rec.user_id \notin UserIds
            THEN [code |-> missing_user, detail |-> "User not found"]
            ELSE [code |-> 200, detail |-> "-"]

\* Faulty deletions: the token row stays in the table.
DeleteExpired_kept(token) == password_reset_token

DeleteUsed_kept(token) == password_reset_token

\* A faulty deletion: a reset removes every token row of the user.
DeleteUsed_of_user(token) ==
    {r \in password_reset_token :
        \A x \in reset_rec(token) : r.user_id # x.user_id}

\* await db.delete(reset_rec) of a token found expired
DeleteExpired(token) == password_reset_token \ reset_rec(token)

\* await db.delete(reset_rec) of the token a reset consumed
DeleteUsed(token) == password_reset_token \ reset_rec(token)

\* POST /reset-password of routes/auth_routes.py
auth_router_reset_password(token, new_password) ==
    LET r == reset_password_checks(token, 404)
        u == IF reset_rec(token) = {} THEN 0
             ELSE (CHOOSE x \in reset_rec(token) : TRUE).user_id
    IN /\ started
       /\ IF r.code = 200
          THEN /\ user' = SetPassword(u, new_password)
               /\ history' = [history EXCEPT !.pw_origin[u] = "user",
                                          !.used = @ \cup {token}]
               /\ session' = EndSessionsOf(u, now)
               /\ password_reset_token' = DeleteUsed(token)
          ELSE /\ UNCHANGED <<user, history, session>>
               /\ password_reset_token' =
                      IF r.detail = "Reset token has expired"
                      THEN DeleteExpired(token)
                      ELSE password_reset_token
       /\ last' = [Response("reset_password", r.code, r.detail, u)
                     EXCEPT !.key = token]
       /\ UNCHANGED <<started, user_detail, token_seq, now,
                      SESSION_TIMEOUT_MINUTES, side,
                   inflight>>

\* POST /reset-password of routes/user_routes.py
router_reset_password(token, new_password) ==
    LET r == reset_password_checks(token, 500)
        u == IF reset_rec(token) = {} THEN 0
             ELSE (CHOOSE x \in reset_rec(token) : TRUE).user_id
    IN /\ started
       /\ IF r.code = 200
          THEN /\ user' = SetPassword(u, new_password)
               /\ history' = [history EXCEPT !.pw_origin[u] = "user",
                                          !.used = @ \cup {token}]
               /\ password_reset_token' = DeleteUsed(token)
          ELSE /\ UNCHANGED <<user, history>>
               /\ password_reset_token' =
                      IF r.detail = "Reset token has expired"
                      THEN DeleteExpired(token)
                      ELSE password_reset_token
       /\ last' = [Response("reset_password", r.code, r.detail, u)
                     EXCEPT !.key = token]
       /\ UNCHANGED <<started, user_detail, session, token_seq, now,
                      SESSION_TIMEOUT_MINUTES, side,
                   inflight>>

\* ----------------------------------------------------- admin routes
\* A faulty create_user: a duplicate username does not stop the insert of
\* the user row.
create_user_no_rollback(t, data, tp) ==
    LET role_id == RoleIdOf(data.role)
        u1 == Append(t.user, NewUser(data.email, tp, role_id, data.status))
        o1 == Append(t.pw_origin, "system")
    IN IF role_id = 0
       THEN [code |-> 400, detail |-> "Role not found", id |-> 0,
             user |-> t.user, user_detail |-> t.user_detail,
             pw_origin |-> t.pw_origin]
       ELSE [code |-> 400, detail |-> "A user with that email already exists.",
             id |-> 0, user |-> u1, user_detail |-> t.user_detail,
             pw_origin |-> o1]

\* A faulty create_user: the role is looked up after the user row is
\* committed, so an unknown role leaves that row behind.
create_user_role_late(t, data, tp) ==
    LET role_id == RoleIdOf(data.role)
        id == Len(t.user) + 1
        u1 == Append(t.user, NewUser(data.email, tp, role_id, data.status))
        o1 == Append(t.pw_origin, "system")
    IN IF \E u \in DOMAIN t.user : t.user[u].username = data.email
       THEN [code |-> 400, detail |-> "A user with that email already exists.",
             id |-> 0, user |-> t.user, user_detail |-> t.user_detail,
             pw_origin |-> t.pw_origin]
       ELSE IF role_id = 0
       THEN [code |-> 400, detail |-> "Role not found", id |-> 0,
             user |-> u1, user_detail |-> t.user_detail, pw_origin |-> o1]
       ELSE [code |-> 200, detail |-> "-", id |-> id, user |-> u1,
             user_detail |-> Append(t.user_detail,
                                    NewDetail(id, data.email, data.full_name)),
             pw_origin |-> o1]

\* create_user(db, data, created_by) on tables t (those left by
\* create_initial_admin_if_needed), with temp password tp
create_user(t, data, tp) ==
    LET role_id == RoleIdOf(data.role)
        id == Len(t.user) + 1
        u1 == Append(t.user, NewUser(data.email, tp, role_id, data.status))
        o1 == Append(t.pw_origin, "system")
    IN IF role_id = 0
       THEN \* get_role_id raises ValueError
            [code |-> 400, detail |-> "Role not found", id |-> 0,
             user |-> t.user, user_detail |-> t.user_detail,
             pw_origin |-> t.pw_origin]
       ELSE IF \E u \in DOMAIN t.user : t.user[u].username = data.email
       THEN \* first commit: IntegrityError, rollback, ValueError
            [code |-> 400, detail |-> "A user with that email already exists.",
             id |-> 0, user |-> t.user, user_detail |-> t.user_detail,
             pw_origin |-> t.pw_origin]
       ELSE IF \E d \in DOMAIN t.user_detail :
                   t.user_detail[d].email = data.email
       THEN \* second commit: IntegrityError after the user row is committed
            [code |-> 400, detail |-> "A user with that email already exists.",
             id |-> 0, user |-> u1, user_detail |-> t.user_detail,
             pw_origin |-> o1]
       ELSE [code |-> 200, detail |-> "-", id |-> id, user |-> u1,
             user_detail |-> Append(t.user_detail,
                                    NewDetail(id, data.email, data.full_name)),
             pw_origin |-> o1]

AddUser == [full_name : FullNames, email : Emails, role : RoleNames,
            status : BOOLEAN]

\* POST /admin/add-user: the handler takes no cookie and no current user.
\* The email to the new user is a background task: it runs after the
\* response, and what it raises reaches no one.
add_user(data, smtp_ok) ==
    /\ started
    /\   LET a == create_initial_admin_if_needed(
                      generate_temp_password(<<>>), smtp_ok)
             r == IF a.ok
                  THEN create_user(a, data, generate_temp_password(<<>>))
                  ELSE [code |-> 500, detail |-> a.detail, id |-> 0,
                        user |-> a.user, user_detail |-> a.user_detail,
                        pw_origin |-> a.pw_origin]
         IN /\ user' = r.user
            /\ user_detail' = r.user_detail
            /\ history' = [history EXCEPT !.pw_origin = r.pw_origin]
            /\ last' = [Response("add_user", r.code, r.detail, r.id)
                          EXCEPT !.mail = a.mail \cup
                                     IF r.code = 200 THEN {data.email} ELSE {}]
    /\ UNCHANGED <<started, session, password_reset_token, token_seq, now,
                   SESSION_TIMEOUT_MINUTES, side,
                   inflight>>

\* GET /admin/users: user joined with user_detail and role, status taken
\* from user_detail
list_users_rows ==
    {[id |-> u, email |-> user_detail[d].email,
      role |-> default_roles[user[u].role_id],
      status |-> user_detail[d].status,
      is_temp_password |-> user[u].is_temp_password] :
        <<u, d>> \in {x \in UserIds \X DOMAIN user_detail :
                        /\ user_detail[x[2]].user_id = x[1]
                        /\ user[x[1]].role_id \in DOMAIN default_roles}}

list_users ==
    /\ started
    /\ last' = Response("list_users", 200, "-", 0)
    /\ UNCHANGED <<started, user, user_detail, session, password_reset_token,
                   token_seq, now, SESSION_TIMEOUT_MINUTES, side, history,
                   inflight>>

\* email_exists_for_other_user(db, email, exclude_user_id)
email_exists_for_other_user(email, exclude_user_id) ==
    \E u \in UserIds : user[u].username = email /\ u # exclude_user_id

\* update_user(db, user_id, data, modified_by, reset_temp_password) with
\* temp password tp: status, the tables after it
update_user(user_id, data, reset_temp_password, tp) ==
    LET same == [user |-> user, user_detail |-> user_detail,
                 session |-> session, pw_origin |-> history.pw_origin]
    IN IF user_id \notin UserIds \/ DetailOf(user_id) = 0
       THEN [code |-> 404, detail |-> "User not found", t |-> same]
       ELSE IF email_exists_for_other_user(data.email, user_id)
       THEN \* ValueError, which edit_user does not catch
            [code |-> 500,
             detail |-> "A user with that email already exists.", t |-> same]
       ELSE IF RoleIdOf(data.role) = 0
       THEN [code |-> 500, detail |-> "Role not found", t |-> same]
       ELSE IF \E d \in DOMAIN user_detail :
                   /\ user_detail[d].email = data.email
                   /\ user_detail[d].user_id # user_id
       THEN \* commit: IntegrityError, rollback, ValueError
            [code |-> 500,
             detail |-> "A user with that email already exists.", t |-> same]
       ELSE
         LET email_changed == user[user_id].username # data.email
             reissue == email_changed \/ reset_temp_password
             d == DetailOf(user_id)
             row == [user[user_id] EXCEPT
                       !.username = data.email,
                       !.status = data.status,
                       !.role_id = RoleIdOf(data.role),
                       !.password_hash =
                           IF reissue THEN hash_password(tp) ELSE @,
                       !.is_temp_password = IF reissue THEN TRUE ELSE @]
         IN [code |-> 200, detail |-> "-",
             t |-> [user |-> [user EXCEPT ![user_id] = row],
                    user_detail |->
                        [user_detail EXCEPT ![d] =
                            [@ EXCEPT !.full_name = data.full_name,
                                      !.email = data.email,
                                      !.status = data.status]],
                    session |-> IF email_changed \/ ~data.status
                                THEN EndSessionsOf(user_id, now)
                                ELSE session,
                    pw_origin |->
                        IF reissue
                        THEN [history.pw_origin EXCEPT ![user_id] = "system"]
                        ELSE history.pw_origin]]

\* ids a PUT /admin/users/{user_id} may name: the rows and one absent id
PathUserIds == 1..(Cardinality(Emails) + 1)

\* PUT /admin/users/{user_id}: the handler takes no cookie either.  It
\* returns the (dict, temp_password) tuple of update_user under
\* response_model=UserListItem, which the tuple does not validate as: after
\* update_user has committed, the response is a 500.
edit_user(user_id, data) ==
    /\ started
    /\   LET tp == generate_temp_password(
                       IF user_id \in UserIds
                       THEN user[user_id].password_hash ELSE <<>>)
             r == update_user(user_id, data, FALSE, tp)
         IN /\ user' = r.t.user
            /\ user_detail' = r.t.user_detail
            /\ session' = r.t.session
            /\ history' = [history EXCEPT !.pw_origin = r.t.pw_origin]
            /\ last' = IF r.code = 200
                       THEN Response("edit_user", 500,
                                     "ResponseValidationError", user_id)
                       ELSE Response("edit_user", r.code, r.detail, 0)
    /\ UNCHANGED <<started, password_reset_token, token_seq, now,
                   SESSION_TIMEOUT_MINUTES, side,
                   inflight>>

\* A direct call of the service function update_user(db, user_id, data,
\* modified_by, reset_temp_password): what it returns (200), None (404) or
\* the ValueError it raises (500)
call_update_user(user_id, data, reset_temp_password) ==
    /\ started
    /\   LET tp == generate_temp_password(
                       IF user_id \in UserIds
                       THEN user[user_id].password_hash ELSE <<>>)
             r == update_user(user_id, data, reset_temp_password, tp)
         IN /\ user' = r.t.user
            /\ user_detail' = r.t.user_detail
            /\ session' = r.t.session
            /\ history' = [history EXCEPT !.pw_origin = r.t.pw_origin]
            /\ last' = Response("update_user", r.code, r.detail,
                                IF r.code = 200 THEN user_id ELSE 0)
    /\ UNCHANGED <<started, password_reset_token, token_seq, now,
                   SESSION_TIMEOUT_MINUTES, side,
                   inflight>>

\* ------------------------------------------- the service, step by step
\* Two requests run as two coroutines with a database session each; one
\* runs between any two awaited database steps of the other.  What a
\* request flushes is visible to the others at its commit.

\* calls that may be between two steps at the same time
MaxInflight == 2

\* emails the racing requests ask for: the users' emails of the model and
\* one more, free for two rows to move to
RaceEmails == (Emails \ {ADMIN_EMAIL}) \cup {"u2@x"}

\* Without the unique constraints of user.username and user_detail.email
\* no commit is refused.
UniqueViolation_off(users, details) == FALSE

\* unique=True on user.username and user_detail.email: the commit that
\* would leave the tables as (users, details) raises IntegrityError
UniqueViolation(users, details) ==
    \/ \E u, v \in DOMAIN users :
          u # v /\ users[u].username = users[v].username
    \/ \E d, e \in DOMAIN details :
          d # e /\ details[d].email = details[e].email

\* create_user up to its first commit: get_role_id, db.add(user), commit.
\* The call then waits for its second commit with the user row stored.
begin_create_user(data) ==
    LET role_id == RoleIdOf(data.role)
        id == Len(user) + 1
        row == NewUser(data.email, generate_temp_password(<<>>), role_id,
                       data.status)
    IN /\ started
       /\ Cardinality(inflight) < MaxInflight
       /\ IF role_id = 0
          THEN /\ last' = [Response("create_user", 400, "Role not found", 0)
                             EXCEPT !.key = 1]
               /\ UNCHANGED <<user, history, inflight>>
          ELSE IF UniqueViolation(Append(user, row), user_detail)
          THEN \* IntegrityError, rollback, ValueError
               /\ last' = [Response("create_user", 400,
                              "A user with that email already exists.", 0)
                             EXCEPT !.key = 1]
               /\ UNCHANGED <<user, history, inflight>>
          ELSE /\ user' = Append(user, row)
               /\ history' = [history EXCEPT
                                !.pw_origin = Append(@, "system")]
               /\ inflight' = inflight \cup
                      {[op |-> "create_user", user_id |-> id, data |-> data,
                        reset_temp_password |-> FALSE, user |-> row,
                        detail |-> NewDetail(id, data.email, data.full_name)]}
               /\ last' = [Response("create_user", 0, "-", id)
                             EXCEPT !.key = 1]
       /\ UNCHANGED <<started, user_detail, session, password_reset_token,
                      token_seq, now, SESSION_TIMEOUT_MINUTES, side>>

\* create_user from db.refresh(user) on: db.add(detail), commit
commit_create_user(r) ==
    /\ r.op = "create_user"
    /\ inflight' = inflight \ {r}
    /\ IF UniqueViolation(user, Append(user_detail, r.detail))
       THEN \* IntegrityError, rollback, ValueError; the user row stays
            /\ last' = [Response("create_user", 400,
                           "A user with that email already exists.", 0)
                          EXCEPT !.key = 2]
            /\ UNCHANGED user_detail
       ELSE /\ user_detail' = Append(user_detail, r.detail)
            /\ last' = [Response("create_user", 200, "-", r.user_id)
                          EXCEPT !.key = 2]
    /\ UNCHANGED <<started, user, session, password_reset_token, token_seq,
                   now, SESSION_TIMEOUT_MINUTES, side, history>>

\* update_user up to its check: it loads the user and detail rows and
\* asks email_exists_for_other_user.  The call then holds the rows as it
\* read them and goes on to the role lookup and the commit.
begin_update_user(user_id, data, reset_temp_password) ==
    /\ started
    /\ Cardinality(inflight) < MaxInflight
    /\ IF user_id \notin UserIds \/ DetailOf(user_id) = 0
       THEN /\ last' = [Response("update_user", 404, "User not found", 0)
                          EXCEPT !.key = 1]
            /\ UNCHANGED inflight
       ELSE IF email_exists_for_other_user(data.email, user_id)
       THEN /\ last' = [Response("update_user", 500,
                           "A user with that email already exists.", 0)
                          EXCEPT !.key = 1]
            /\ UNCHANGED inflight
       ELSE /\ inflight' = inflight \cup
                   {[op |-> "update_user", user_id |-> user_id,
                     data |-> data,
                     reset_temp_password |-> reset_temp_password,
                     user |-> user[user_id],
                     detail |-> user_detail[DetailOf(user_id)]]}
            /\ last' = [Response("update_user", 0, "-", user_id)
                          EXCEPT !.key = 1]
    /\ UNCHANGED <<started, user, user_detail, session, password_reset_token,
                   token_seq, now, SESSION_TIMEOUT_MINUTES, side, history>>

\* update_user from the role lookup on: the attributes it sets to a value
\* other than the one it loaded are written, the user's sessions are ended
\* and all of it is committed, or none of it when the commit is refused.
commit_update_user(r) ==
    LET user_id == r.user_id
        data == r.data
        d == DetailOf(user_id)
        role_id == RoleIdOf(data.role)
        email_changed == r.user.username # data.email
        reissue == email_changed \/ r.reset_temp_password
        tp == generate_temp_password(r.user.password_hash)
        row == [user[user_id] EXCEPT
                  !.username = IF data.email # r.user.username
                               THEN data.email ELSE @,
                  !.status = IF data.status # r.user.status
                             THEN data.status ELSE @,
                  !.role_id = IF role_id # r.user.role_id
                              THEN role_id ELSE @,
                  !.password_hash = IF reissue THEN hash_password(tp) ELSE @,
                  !.is_temp_password =
                      IF reissue /\ ~r.user.is_temp_password THEN TRUE ELSE @]
        det == [user_detail[d] EXCEPT
                  !.full_name = IF data.full_name # r.detail.full_name
                                THEN data.full_name ELSE @,
                  !.email = IF data.email # r.detail.email
                            THEN data.email ELSE @,
                  !.status = IF data.status # r.detail.status
                             THEN data.status ELSE @]
        users == [user EXCEPT ![user_id] = row]
        details == [user_detail EXCEPT ![d] = det]
    IN /\ r.op = "update_user"
       /\ inflight' = inflight \ {r}
       /\ IF role_id = 0
          THEN /\ last' = [Response("update_user", 500, "Role not found", 0)
                             EXCEPT !.key = 2]
               /\ UNCHANGED <<user, user_detail, session, history>>
          ELSE IF UniqueViolation(users, details)
          THEN \* IntegrityError, rollback, ValueError
               /\ last' = [Response("update_user", 500,
                              "A user with that email already exists.", 0)
                             EXCEPT !.key = 2]
               /\ UNCHANGED <<user, user_detail, session, history>>
          ELSE /\ user' = users
               /\ user_detail' = details
               /\ session' = IF email_changed \/ ~data.status
                             THEN EndSessionsOf(user_id, now)
                             ELSE session
               /\ history' = [history EXCEPT !.pw_origin =
                                 IF reissue
                                 THEN [@ EXCEPT ![user_id] = "system"]
                                 ELSE @]
               /\ last' = [Response("update_user", 200, "-", user_id)
                             EXCEPT !.key = 2]
       /\ UNCHANGED <<started, password_reset_token, token_seq, now,
                      SESSION_TIMEOUT_MINUTES, side>>

\* POST /reset-password of routes/auth_routes.py up to db.get(User): the
\* select of the token row and the checks.  A request that passed them
\* holds the row it read, the user, and its utc_now, and goes on to the
\* writes and the commit.
begin_reset_password(token, new_password) ==
    LET r == reset_password_checks(token, 404)
        rec == CHOOSE x \in reset_rec(token) : TRUE
    IN /\ started
       /\ Cardinality(inflight) < MaxInflight
       /\ IF r.code = 200
          THEN /\ inflight' = inflight \cup
                      {[op |-> "reset_password", rec |-> rec,
                        new_password |-> new_password, utc_now |-> now]}
               /\ last' = [Response("reset_password", 0, "-", rec.user_id)
                             EXCEPT !.key = token]
               /\ UNCHANGED password_reset_token
          ELSE /\ password_reset_token' =
                      IF r.detail = "Reset token has expired"
                      THEN DeleteExpired(token)
                      ELSE password_reset_token
               /\ last' = [Response("reset_password", r.code, r.detail, 0)
                             EXCEPT !.key = token]
               /\ UNCHANGED inflight
       /\ UNCHANGED <<started, user, user_detail, session, token_seq, now,
                      SESSION_TIMEOUT_MINUTES, side, history>>

\* POST /reset-password from the assignment of the hash on: the UPDATE of
\* the user row and of its open sessions, the DELETE of the token row by
\* its primary key, and the commit.  A DELETE that finds the row gone
\* matches no row, which the ORM reports as a warning.
commit_reset_password(r) ==
    /\ r.op = "reset_password"
    /\ inflight' = inflight \ {r}
    /\ user' = SetPassword(r.rec.user_id, r.new_password)
    /\ history' = [history EXCEPT !.pw_origin[r.rec.user_id] = "user",
                                  !.used = @ \cup {r.rec.token}]
    /\ session' = EndSessionsOf(r.rec.user_id, r.utc_now)
    /\ password_reset_token' = password_reset_token \ {r.rec}
    /\ last' = [Response("reset_password", 200, "-", r.rec.user_id)
                  EXCEPT !.key = r.rec.token]
    /\ UNCHANGED <<started, user_detail, token_seq, now,
                   SESSION_TIMEOUT_MINUTES, side>>

\* POST /login up to the return of login_user: the select of the user,
\* the status and password checks, and a commit that writes nothing.  A
\* request that passed them holds what login_user returned and goes on
\* to create_session.
begin_login(username, password) ==
    LET r == login_user(username, password)
    IN /\ started
       /\ Cardinality(inflight) < MaxInflight
       /\ IF r.code = 200
          THEN /\ inflight' = inflight \cup
                      {[op |-> "login", user_id |-> r.id,
                        is_temp_password |-> user[r.id].is_temp_password]}
               /\ last' = [Response("login", 0, "-", r.id) EXCEPT !.key = 1]
          ELSE /\ last' = [Response("login", r.code, "-", 0) EXCEPT !.key = 1]
               /\ UNCHANGED inflight
       /\ UNCHANGED <<started, user, user_detail, session,
                      password_reset_token, token_seq, now,
                      SESSION_TIMEOUT_MINUTES, side, history>>

\* POST /login from create_session on: the insert of the session row, its
\* commit, and the cookie
commit_login(r) ==
    /\ r.op = "login"
    /\ Len(session) < MaxSessions
    /\ inflight' = inflight \ {r}
    /\ session' = create_session(r.user_id)
    /\ last' = [Response("login", 200, "-", r.user_id)
                  EXCEPT !.redirect = r.is_temp_password,
                         !.key = Len(session) + 1]
    /\ UNCHANGED <<started, user, user_detail, password_reset_token,
                   token_seq, now, SESSION_TIMEOUT_MINUTES, side, history>>

\* ---------------------------------------------------------- scheduler
\* A faulty sweep: it also closes the sessions that are exactly as old as
\* the timeout (<= where the code has <).
cleanup_expired_sessions_at_cutoff ==
    LET cutoff == now - SESSION_TIMEOUT_MINUTES
        expired == {i \in DOMAIN session :
                      /\ session[i].start_time <= cutoff
                      /\ session[i].end_time = NULL}
    IN /\ started
       /\ session' = [i \in DOMAIN session |->
                        IF i \in expired
                        THEN [session[i] EXCEPT !.end_time =
                                 session[i].start_time
                                 + SESSION_TIMEOUT_MINUTES]
                        ELSE session[i]]
       /\ last' = Response("cleanup_expired_sessions", 0, "-", 0)
       /\ UNCHANGED <<started, user, user_detail, password_reset_token,
                      token_seq, now, SESSION_TIMEOUT_MINUTES, side, history,
                   inflight>>

\* cleanup_expired_sessions(): one run of the interval job
cleanup_expired_sessions ==
    LET cutoff == now - SESSION_TIMEOUT_MINUTES
        expired == {i \in DOMAIN session :
                      /\ session[i].start_time < cutoff
                      /\ session[i].end_time = NULL}
    IN /\ started
       /\ session' = [i \in DOMAIN session |->
                        IF i \in expired
                        THEN [session[i] EXCEPT !.end_time =
                                 session[i].start_time
                                 + SESSION_TIMEOUT_MINUTES]
                        ELSE session[i]]
       /\ last' = Response("cleanup_expired_sessions", 0, "-", 0)
       /\ UNCHANGED <<started, user, user_detail, password_reset_token,
                      token_seq, now, SESSION_TIMEOUT_MINUTES, side, history,
                   inflight>>

\* cleanup_expired_sessions() up to the end of its select: the run holds
\* the sessions it found expired.  max_instances=1: one run at a time.
begin_cleanup_expired_sessions ==
    LET cutoff == now - SESSION_TIMEOUT_MINUTES
        expired == {i \in DOMAIN session :
                      /\ session[i].start_time < cutoff
                      /\ session[i].end_time = NULL}
    IN /\ started
       /\ \A r \in inflight : r.op # "cleanup_expired_sessions"
       /\ inflight' = IF expired = {} THEN inflight
                      ELSE inflight \cup
                           {[op |-> "cleanup_expired_sessions",
                             expired |-> expired]}
       /\ last' = [Response("cleanup_expired_sessions", 0, "-", 0)
                     EXCEPT !.key = 1]
       /\ UNCHANGED <<started, user, user_detail, session,
                      password_reset_token, token_seq, now,
                      SESSION_TIMEOUT_MINUTES, side, history>>

\* cleanup_expired_sessions() from its loop on: it sets end_time on each
\* row it holds and commits, an UPDATE of each row by its primary key
commit_cleanup_expired_sessions(r) ==
    /\ r.op = "cleanup_expired_sessions"
    /\ inflight' = inflight \ {r}
    /\ session' = [i \in DOMAIN session |->
                     IF i \in r.expired
                     THEN [session[i] EXCEPT !.end_time =
                              session[i].start_time
                              + SESSION_TIMEOUT_MINUTES]
                     ELSE session[i]]
    /\ last' = [Response("cleanup_expired_sessions", 0, "-", 0)
                  EXCEPT !.key = 2]
    /\ UNCHANGED <<started, user, user_detail, password_reset_token,
                   token_seq, now, SESSION_TIMEOUT_MINUTES, side, history>>

\* the clock advances
Tick ==
    /\ now < MaxTime
    /\ now' = now + 1
    /\ last' = Response("Tick", 0, "-", 0)
    /\ UNCHANGED <<started, user, user_detail, session, password_reset_token,
                   token_seq, SESSION_TIMEOUT_MINUTES, side, history,
                   inflight>>

\* -------------------------------------------------------- file routes
\* uploads the SERIAL sequence of file_uploads may number
MaxUploads == 2

\* an UploadFile: the base name and extension of its filename, and whether
\* it is larger than MAX_FILE_SIZE_MB
Files == [base : {"a"}, ext : {".pdf", ".txt"}, big : BOOLEAN]

\* what boto3 and psycopg2 may do in upload_file_to_s3: upload_fileobj
\* raises ("s3"), the INSERT or its commit raises ("db"), neither ("ok")
UploadOutcomes == {"ok", "s3", "db"}

\* what the POST to the AI backend may do: answer 200, answer another
\* status, time out, fail to connect, raise anything else
CallbackOutcomes == {"200", "status", "timeout", "connect", "other"}

\* the detail upload_pdf gives each callback failure
CallbackDetail(callback) ==
    CASE callback = "status" -> "AI backend failed with status"
      [] callback = "timeout" -> "AI backend request timed out"
      [] callback = "connect" -> "Failed to connect to AI backend"
      [] OTHER -> "Unexpected error while notifying AI backend"

\* uuid4().hex[:8]: a suffix no stored name carries; the first free
\* number stands for it
unique_suffix(base) ==
    CHOOSE n \in 1..(Cardinality(s3) + Cardinality(file_uploads) + 1) :
        /\ <<base, n>> \notin s3
        /\ \A row \in file_uploads : row.file_name # <<base, n>>
        /\ \A m \in 1..(n - 1) :
              \/ <<base, m>> \in s3
              \/ \E row \in file_uploads : row.file_name = <<base, m>>

\* A faulty upload_pdf: a failed callback rolls the upload back.
upload_pdf_rollback(file, upload, callback) ==
    LET unique_file_name == <<file.base, unique_suffix(file.base)>>
    IN /\ started
       /\ file_uploads_id_seq < MaxUploads
       /\ Cardinality(s3) < MaxUploads
       /\ IF file.ext # ".pdf"
          THEN /\ last' = Response("upload_pdf", 400,
                                   "Invalid file format. Only PDF allowed.", 0)
               /\ UNCHANGED <<s3, file_uploads, file_uploads_id_seq>>
          ELSE IF file.big \/ upload = "s3"
          THEN /\ last' = Response("upload_pdf", 500, "File upload failed", 0)
               /\ UNCHANGED <<s3, file_uploads, file_uploads_id_seq>>
          ELSE IF upload = "db"
          THEN /\ s3' = s3 \cup {unique_file_name}
               /\ last' = Response("upload_pdf", 500, "File upload failed", 0)
               /\ UNCHANGED <<file_uploads, file_uploads_id_seq>>
          ELSE IF callback # "200"
          THEN /\ last' = Response("upload_pdf", 500,
                                   CallbackDetail(callback), 0)
               /\ UNCHANGED <<s3, file_uploads, file_uploads_id_seq>>
          ELSE /\ s3' = s3 \cup {unique_file_name}
               /\ file_uploads_id_seq' = file_uploads_id_seq + 1
               /\ file_uploads' = file_uploads \cup
                      {[id |-> file_uploads_id_seq + 1,
                        file_name |-> unique_file_name]}
               /\ last' = Response("upload_pdf", 200, "-", 0)
       /\ UNCHANGED <<started, user, user_detail, session,
                      password_reset_token, token_seq, now,
                      SESSION_TIMEOUT_MINUTES, history, inflight,
                      active_connections, wire, dash>>

\* POST /upload-pdf: upload_file_to_s3 (size check, S3 upload, INSERT into
\* file_uploads, commit), then the callback to the AI backend.  last.key
\* is the id of the row it stored (0 for none).
upload_pdf(file, upload, callback) ==
    LET unique_file_name == <<file.base, unique_suffix(file.base)>>
    IN /\ started
       /\ file_uploads_id_seq < MaxUploads
       /\ Cardinality(s3) < MaxUploads
       /\ IF file.ext # ".pdf"
          THEN /\ last' = Response("upload_pdf", 400,
                                   "Invalid file format. Only PDF allowed.", 0)
               /\ UNCHANGED <<s3, file_uploads, file_uploads_id_seq>>
          ELSE IF file.big \/ upload = "s3"
          THEN \* ValueError or what upload_fileobj raised
               /\ last' = Response("upload_pdf", 500, "File upload failed", 0)
               /\ UNCHANGED <<s3, file_uploads, file_uploads_id_seq>>
          ELSE IF upload = "db"
          THEN \* the object is stored, the row is not
               /\ s3' = s3 \cup {unique_file_name}
               /\ last' = Response("upload_pdf", 500, "File upload failed", 0)
               /\ UNCHANGED <<file_uploads, file_uploads_id_seq>>
          ELSE /\ s3' = s3 \cup {unique_file_name}
               /\ file_uploads_id_seq' = file_uploads_id_seq + 1
               /\ file_uploads' = file_uploads \cup
                      {[id |-> file_uploads_id_seq + 1,
                        file_name |-> unique_file_name]}
               /\ last' = [Response("upload_pdf",
                                    IF callback = "200" THEN 200 ELSE 500,
                                    IF callback = "200" THEN "-"
                                    ELSE CallbackDetail(callback), 0)
                             EXCEPT !.key = file_uploads_id_seq + 1]
       /\ UNCHANGED <<started, user, user_detail, session,
                      password_reset_token, token_seq, now,
                      SESSION_TIMEOUT_MINUTES, history, inflight,
                      active_connections, wire, dash>>

\* ids a DELETE /delete-resource/{resource_id} may name
ResourceIds == 1..(MaxUploads + 1)

\* SELECT file_name FROM file_uploads WHERE id = :id
ResourceRow(resource_id) == {row \in file_uploads : row.id = resource_id}

\* A faulty delete_resource: the row is deleted before the object store
\* is asked.
delete_resource_row_first(resource_id, s3_deleted, pinecone_ok) ==
    LET rows == ResourceRow(resource_id)
    IN /\ started
       /\ IF rows = {}
          THEN /\ last' = Response("delete_resource", 404,
                                   "Resource not found", 0)
               /\ UNCHANGED <<s3, file_uploads>>
          ELSE /\ file_uploads' = file_uploads \ rows
               /\ IF ~s3_deleted
                  THEN /\ last' = [Response("delete_resource", 500,
                                      "Failed to delete file from S3", 0)
                                     EXCEPT !.key = resource_id]
                       /\ UNCHANGED s3
                  ELSE /\ s3' = s3 \ {row.file_name : row \in rows}
                       /\ last' = [Response("delete_resource",
                                      IF pinecone_ok THEN 200 ELSE 500,
                                      IF pinecone_ok THEN "-"
                                      ELSE "Failed to delete from Pinecone", 0)
                                     EXCEPT !.key = resource_id]
       /\ UNCHANGED <<started, user, user_detail, session,
                      password_reset_token, token_seq, now,
                      SESSION_TIMEOUT_MINUTES, history, inflight,
                      file_uploads_id_seq, active_connections, wire, dash>>

\* DELETE /delete-resource/{resource_id}: s3_deleted is what
\* delete_file_from_s3 returns, pinecone_ok whether the POST to the AI
\* backend returned.  last.key is the id asked for.
delete_resource(resource_id, s3_deleted, pinecone_ok) ==
    LET rows == ResourceRow(resource_id)
    IN /\ started
       /\ IF rows = {}
          THEN /\ last' = [Response("delete_resource", 404,
                              "Resource not found", 0)
                             EXCEPT !.key = resource_id]
               /\ UNCHANGED <<s3, file_uploads>>
          ELSE IF ~s3_deleted
          THEN /\ last' = [Response("delete_resource", 500,
                              "Failed to delete file from S3", 0)
                             EXCEPT !.key = resource_id]
               /\ UNCHANGED <<s3, file_uploads>>
          ELSE /\ s3' = s3 \ {row.file_name : row \in rows}
               /\ file_uploads' = file_uploads \ rows
               /\ last' = [Response("delete_resource",
                              IF pinecone_ok THEN 200 ELSE 500,
                              IF pinecone_ok THEN "-"
                              ELSE "Failed to delete from Pinecone", 0)
                             EXCEPT !.key = resource_id]
       /\ UNCHANGED <<started, user, user_detail, session,
                      password_reset_token, token_seq, now,
                      SESSION_TIMEOUT_MINUTES, history, inflight,
                      file_uploads_id_seq, active_connections, wire, dash>>

\* ------------------------------------------------ ConnectionManager
\* registrations the manager may hold at a time
MaxConnections == 3

WebSockets == {"w1", "w2"}
\* the topic argument: a name, or None (the default of connect and
\* disconnect)
None == "None"
Topics == {"a", "b"}
Messages == {"m1"}

\* list.remove(x): the list without the first occurrence of x
ListRemove(conns, x) ==
    LET i == CHOOSE k \in DOMAIN conns :
                 conns[k] = x /\ \A j \in 1..(k - 1) : conns[j] # x
    IN [k \in 1..(Len(conns) - 1) |->
           IF k < i THEN conns[k] ELSE conns[k + 1]]

\* self.active_connections[key] of a defaultdict(list): the key is added
\* with an empty list when it is looked up and missing
Lookup(key) ==
    IF key \in DOMAIN active_connections THEN active_connections
    ELSE [k \in DOMAIN active_connections \cup {key} |->
             IF k = key THEN <<>> ELSE active_connections[k]]

\* the number of registrations held
RECURSIVE Registrations(_, _)
Registrations(conns, keys) ==
    IF keys = {} THEN 0
    ELSE LET k == CHOOSE x \in keys : TRUE
         IN Len(conns[k]) + Registrations(conns, keys \ {k})

\* ConnectionManager.connect(websocket, topic); accepted is whether
\* websocket.accept() returned (the socket is appended) or raised
connect(websocket, topic, accepted) ==
    LET key == IF topic = None THEN "default" ELSE topic
    IN /\ Registrations(active_connections, DOMAIN active_connections)
              < MaxConnections
       /\ active_connections' =
              IF accepted
              THEN [Lookup(key) EXCEPT ![key] = Append(@, websocket)]
              ELSE active_connections
       /\ last' = Response("connect", IF accepted THEN 200 ELSE 500, "-", 0)
       /\ UNCHANGED <<started, user, user_detail, session,
                      password_reset_token, token_seq, now,
                      SESSION_TIMEOUT_MINUTES, history, inflight, s3,
                      file_uploads, file_uploads_id_seq, wire, dash>>

\* ConnectionManager.disconnect(websocket, topic)
disconnect(websocket, topic) ==
    /\ active_connections' =
           IF topic # None /\ websocket \in Range(Lookup(topic)[topic])
           THEN [active_connections EXCEPT
                    ![topic] = ListRemove(@, websocket)]
           ELSE LET conns == IF topic # None THEN Lookup(topic)
                             ELSE active_connections
                IN [k \in DOMAIN conns |->
                       IF websocket \in Range(conns[k])
                       THEN ListRemove(conns[k], websocket)
                       ELSE conns[k]]
    /\ last' = Response("disconnect", 200, "-", 0)
    /\ UNCHANGED <<started, user, user_detail, session, password_reset_token,
                   token_seq, now, SESSION_TIMEOUT_MINUTES, history, inflight,
                   s3, file_uploads, file_uploads_id_seq, wire, dash>>

\* A faulty broadcast: the first send_json that raises ends the loop.
broadcast_until_failure(topic, message, broken) ==
    LET conns == IF topic \in DOMAIN active_connections
                 THEN active_connections[topic] ELSE <<>>
        stop == IF \E i \in DOMAIN conns : conns[i] \in broken
                THEN CHOOSE i \in DOMAIN conns :
                         /\ conns[i] \in broken
                         /\ \A j \in 1..(i - 1) : conns[j] \notin broken
                ELSE Len(conns)
    IN /\ wire' = [tried |-> SubSeq(conns, 1, stop),
                   sent |-> wire.sent \cup
                       {<<conns[i], message>> :
                           i \in {j \in 1..stop : conns[j] \notin broken}}]
       /\ last' = Response("broadcast", 200, "-", 0)
       /\ UNCHANGED <<started, user, user_detail, session,
                      password_reset_token, token_seq, now,
                      SESSION_TIMEOUT_MINUTES, history, inflight, s3,
                      file_uploads, file_uploads_id_seq, active_connections,
                      dash>>

\* ConnectionManager.broadcast(topic, message): send_json is called on
\* each socket of the topic's list in turn; broken are the sockets whose
\* send_json raises, which is printed and passed over
broadcast(topic, message, broken) ==
    LET conns == IF topic \in DOMAIN active_connections
                 THEN active_connections[topic] ELSE <<>>
    IN /\ wire' = [tried |-> conns,
                   sent |-> wire.sent \cup
                       {<<ws, message>> : ws \in Range(conns) \ broken}]
       /\ last' = Response("broadcast", 200, "-", 0)
       /\ UNCHANGED <<started, user, user_detail, session,
                      password_reset_token, token_seq, now,
                      SESSION_TIMEOUT_MINUTES, history, inflight, s3,
                      file_uploads, file_uploads_id_seq, active_connections,
                      dash>>

\* broadcast(topic, message) up to its for statement: a call for a topic
\* that has a key starts to iterate over the topic's list, the list object
\* that connect appends to and disconnect removes from.  The call holds
\* the list as it was (start), how many elements the iterator has passed
\* (next), and the sockets send_json was called on (tried).
begin_broadcast(topic, message) ==
    /\ Cardinality(inflight) < MaxInflight
    /\ inflight' = IF topic \in DOMAIN active_connections
                   THEN inflight \cup
                        {[op |-> "broadcast", topic |-> topic,
                          message |-> message,
                          start |-> active_connections[topic],
                          next |-> 0, tried |-> <<>>]}
                   ELSE inflight
    /\ last' = [Response("broadcast", 0, "-", 0) EXCEPT !.key = 1]
    /\ UNCHANGED <<started, user, user_detail, session,
                   password_reset_token, token_seq, now,
                   SESSION_TIMEOUT_MINUTES, history, s3, file_uploads,
                   file_uploads_id_seq, active_connections, wire, dash>>

\* one turn of the loop of broadcast: the iterator yields the element at
\* its index of the list as it is now, and send_json is awaited on it;
\* raised is whether it raised
send_broadcast(r, raised) ==
    /\ r.op = "broadcast"
    /\ r.next < Len(active_connections[r.topic])
    /\ LET connection == active_connections[r.topic][r.next + 1]
       IN /\ inflight' = (inflight \ {r}) \cup
                 {[r EXCEPT !.next = @ + 1,
                            !.tried = Append(@, connection)]}
          /\ wire' = [tried |-> Append(r.tried, connection),
                      sent |-> IF raised THEN wire.sent
                               ELSE wire.sent \cup
                                    {<<connection, r.message>>}]
    /\ last' = [Response("broadcast", 0, "-", 0) EXCEPT !.key = 2]
    /\ UNCHANGED <<started, user, user_detail, session,
                   password_reset_token, token_seq, now,
                   SESSION_TIMEOUT_MINUTES, history, s3, file_uploads,
                   file_uploads_id_seq, active_connections, dash>>

\* the iterator's index has reached the length of the list: the loop and
\* the call end
end_broadcast(r) ==
    /\ r.op = "broadcast"
    /\ r.next >= Len(active_connections[r.topic])
    /\ inflight' = inflight \ {r}
    /\ wire' = [wire EXCEPT !.tried = r.tried]
    /\ last' = [Response("broadcast", 200, "-", 0) EXCEPT !.key = 3]
    /\ UNCHANGED <<started, user, user_detail, session,
                   password_reset_token, token_seq, now,
                   SESSION_TIMEOUT_MINUTES, history, s3, file_uploads,
                   file_uploads_id_seq, active_connections, dash>>

\* --------------------------------------------------- dashboard routes
\* The rows of table "session" a dashboard request reads, each with what
\* the queries look at: the role of its user, whether end_time is set
\* (closed), <<year, month>> of start_time, and end_time - start_time in
\* seconds.  start_time is the database's now() at the insert and end_time
\* the application's datetime.now at the logout, so the difference of the
\* two is not always positive.  Year 1 is the year of the clock, year 0
\* the year before.
MaxRows == 2
DashMonths == {<<0, 12>>, <<1, 1>>, <<1, 2>>}
DashClocks == {<<1, 1>>, <<1, 2>>}
DashSeconds == {-1, 0, 61, 90}
DashRows == {r \in [role : {"admin", "user"}, closed : BOOLEAN, start : DashMonths, seconds : DashSeconds] : r.closed \/ r.seconds = 0}

RECURSIVE DashTables(_)
DashTables(n) ==
    IF n = 0 THEN {<<>>}
    ELSE DashTables(n - 1) \cup
         {Append(t, r) : t \in {x \in DashTables(n - 1) : Len(x) = n - 1},
                         r \in DashRows}

\* get_sessions(db, year, month): the closed sessions of non-admin users
\* that started in that month
get_sessions(sessions, year, month) ==
    SelectSeq(sessions, LAMBDA s : /\ s.role # "admin"
                                   /\ s.closed
                                   /\ s.start = <<year, month>>)

RECURSIVE total_seconds(_)
total_seconds(sessions) ==
    IF sessions = <<>> THEN 0
    ELSE Head(sessions).seconds + total_seconds(Tail(sessions))

\* compute_avg_duration(sessions): 0 for no sessions, else sum / len, a
\* fraction kept as <<numerator, denominator>> with a positive denominator
compute_avg_duration(sessions) ==
    IF sessions = <<>> THEN <<0, 1>>
    ELSE <<total_seconds(sessions), Len(sessions)>>

\* round(num / den, 2) in hundredths, ties to the even neighbour
round(num, den) ==
    LET n == IF den < 0 THEN -num ELSE num
        d == IF den < 0 THEN -den ELSE den
        q == (100 * n) \div d
        r == (100 * n) % d
    IN IF 2 * r < d THEN q
       ELSE IF 2 * r > d THEN q + 1
       ELSE IF q % 2 = 0 THEN q ELSE q + 1

\* ((current_avg - previous_avg) / previous_avg) * 100 as a fraction
percentage(current_avg, previous_avg) ==
    <<100 * (current_avg[1] * previous_avg[2] - previous_avg[1] * current_avg[2]), current_avg[2] * previous_avg[1]>>

\* int(x) of a fraction: the digits before the point, towards zero
int(x) ==
    IF x[1] >= 0 THEN x[1] \div x[2] ELSE -((-x[1]) \div x[2])

\* GET /average-session-length at clock <<year, month>>: the payload, with
\* the month's number for its name, the average as the fraction it is,
\* "{minutes}m {seconds}s" as <<minutes, seconds>> and the rounded change
\* in hundredths of a percent
get_average_session_length(sessions, clock) ==
    LET this_year == clock[1]
        this_month == clock[2]
        prev_month == IF this_month = 1 THEN 12 ELSE this_month - 1
        prev_year == IF this_month = 1 THEN this_year - 1 ELSE this_year
        current_avg == compute_avg_duration(get_sessions(sessions, this_year, this_month))
        previous_avg == compute_avg_duration(get_sessions(sessions, prev_year, prev_month))
        change == IF previous_avg[1] = 0
                  THEN (IF current_avg[1] > 0 THEN <<100, 1>> ELSE <<0, 1>>)
                  ELSE percentage(current_avg, previous_avg)
        \* int(current_avg // 60), int(current_avg % 60)
        minutes == current_avg[1] \div (60 * current_avg[2])
        seconds == (current_avg[1] % (60 * current_avg[2])) \div current_avg[2]
    IN [current_month |-> this_month,
        average |-> current_avg,
        formatted |-> <<minutes, seconds>>,
        change |-> round(change[1], change[2])]

\* one turn of the loop of /ws/average-session-length: the payload it
\* sends, in the same form
websocket_avg_session_length(sessions, clock) ==
    LET this_year == clock[1]
        this_month == clock[2]
        prev_month == IF this_month = 1 THEN 12 ELSE this_month - 1
        prev_year == IF this_month = 1 THEN this_year - 1 ELSE this_year
        current_avg == compute_avg_duration(get_sessions(sessions, this_year, this_month))
        previous_avg == compute_avg_duration(get_sessions(sessions, prev_year, prev_month))
        change == IF previous_avg[1] # 0
                  THEN percentage(current_avg, previous_avg)
                  ELSE (IF current_avg[1] # 0 THEN <<100, 1>> ELSE <<0, 1>>)
        \* divmod(int(current_avg), 60)
        minutes == int(current_avg) \div 60
        seconds == int(current_avg) % 60
    IN [current_month |-> this_month,
        average |-> current_avg,
        formatted |-> <<minutes, seconds>>,
        change |-> round(change[1], change[2])]

\* the REST handler answers a request of an authenticated user
average_session_length ==
    /\ dash' = [dash EXCEPT !.rest = get_average_session_length(dash.sessions, dash.clock)]
    /\ last' = Response("average_session_length", 200, "-", 0)
    /\ UNCHANGED <<started, user, user_detail, session,
                   password_reset_token, token_seq, now,
                   SESSION_TIMEOUT_MINUTES, history, inflight, s3,
                   file_uploads, file_uploads_id_seq, active_connections,
                   wire>>

\* the loop of an accepted socket takes a turn and sends its payload
ws_average_session_length ==
    /\ dash' = [dash EXCEPT !.ws = websocket_avg_session_length(dash.sessions, dash.clock)]
    /\ last' = Response("ws_average_session_length", 200, "-", 0)
    /\ UNCHANGED <<started, user, user_detail, session,
                   password_reset_token, token_seq, now,
                   SESSION_TIMEOUT_MINUTES, history, inflight, s3,
                   file_uploads, file_uploads_id_seq, active_connections,
                   wire>>

\* get_current_user_ws(websocket, db) is imported from the user service,
\* which does not define it.  By its caller it returns the user or raises
\* HTTPException; it is taken to validate the session_uuid cookie of the
\* socket's handshake the way get_current_user validates a request's.
get_current_user_ws(cookie) == get_current_user(cookie)

\* the dashboard socket handlers that have run connect_ws: inflight holds
\* for each socket where its handler is: in its loop ("loop"), returned
\* after a refusal ("refused"), ended by an exception of accept
\* ("failed") or by a disconnect ("gone")
Handler(websocket) ==
    {r \in inflight : r.op = "ws" /\ r.websocket = websocket}

\* A faulty connect_ws: it registers the socket first and authenticates
\* it afterwards.
connect_ws_register_first(websocket, cookie, accepted) ==
    LET r == get_current_user_ws(cookie)
    IN /\ started
       /\ Handler(websocket) = {}
       /\ session' = IF r.expired
                     THEN [session EXCEPT ![cookie].end_time = now]
                     ELSE session
       /\ active_connections' =
              IF accepted
              THEN [Lookup("default") EXCEPT !["default"] = Append(@, websocket)]
              ELSE active_connections
       /\ inflight' = inflight \cup
              {[op |-> "ws", websocket |-> websocket,
                pc |-> IF r.code # 200 THEN "refused"
                       ELSE IF accepted THEN "loop" ELSE "failed"]}
       /\ last' = [Response("connect_ws",
                            IF r.code # 200 THEN 1008
                            ELSE IF accepted THEN 200 ELSE 500,
                            r.detail, r.id)
                     EXCEPT !.key = cookie]
       /\ UNCHANGED <<started, user, user_detail, password_reset_token,
                      token_seq, now, SESSION_TIMEOUT_MINUTES, history, s3,
                      file_uploads, file_uploads_id_seq, wire, dash>>

\* connect_ws(websocket) as a dashboard socket route enters with it: the
\* socket presents cookie; accepted is whether websocket.accept()
\* returned.  last.code is 1008 for a socket that close(code=1008) was
\* called on; a RuntimeError of close is passed over.
connect_ws(websocket, cookie, accepted) ==
    LET r == get_current_user_ws(cookie)
    IN /\ started
       /\ Handler(websocket) = {}
       /\ session' = IF r.expired
                     THEN [session EXCEPT ![cookie].end_time = now]
                     ELSE session
       /\ active_connections' =
              IF r.code = 200 /\ accepted
              THEN [Lookup("default") EXCEPT !["default"] = Append(@, websocket)]
              ELSE active_connections
       /\ inflight' = inflight \cup
              {[op |-> "ws", websocket |-> websocket,
                pc |-> IF r.code # 200 THEN "refused"
                       ELSE IF accepted THEN "loop" ELSE "failed"]}
       /\ last' = [Response("connect_ws",
                            IF r.code # 200 THEN 1008
                            ELSE IF accepted THEN 200 ELSE 500,
                            r.detail, r.id)
                     EXCEPT !.key = cookie]
       /\ UNCHANGED <<started, user, user_detail, password_reset_token,
                      token_seq, now, SESSION_TIMEOUT_MINUTES, history, s3,
                      file_uploads, file_uploads_id_seq, wire, dash>>

\* one turn of the loop of a dashboard socket route whose connect_ws
\* returned a user: it sends its payload, or finds the peer gone
\* (WebSocketDisconnect) and calls manager.disconnect(websocket)
ws_send(r, peer_gone) ==
    /\ r.op = "ws"
    /\ r.pc = "loop"
    /\ IF peer_gone
       THEN /\ active_connections' =
                   [k \in DOMAIN active_connections |->
                       IF r.websocket \in Range(active_connections[k])
                       THEN ListRemove(active_connections[k], r.websocket)
                       ELSE active_connections[k]]
            /\ inflight' = (inflight \ {r}) \cup {[r EXCEPT !.pc = "gone"]}
            /\ UNCHANGED wire
       ELSE /\ wire' = [wire EXCEPT !.sent =
                           @ \cup {<<r.websocket, "average-session-length">>}]
            /\ UNCHANGED <<active_connections, inflight>>
    /\ last' = Response("ws_send", IF peer_gone THEN 1000 ELSE 200, "-", 0)
    /\ UNCHANGED <<started, user, user_detail, session,
                   password_reset_token, token_seq, now,
                   SESSION_TIMEOUT_MINUTES, history, s3, file_uploads,
                   file_uploads_id_seq, dash>>

\* ------------------------------------------------------ specifications
\* The passwords a client types against a stored hash: the one it verifies
\* and one it does not (every wrong password is answered alike).
TypedPasswords(hashed) ==
    {pw \in Passwords : verify_password(pw, hashed)}
    \cup {CHOOSE pw \in Passwords : ~verify_password(pw, hashed)}

\* new_password and confirm_password: equal, or different
NewAndConfirm ==
    {<<pw, pw>> : pw \in UserPasswords}
    \cup {<<"p", "q">>}

\* A request whose cookie matches no session row is answered before its
\* passwords are read: one representative stands for all of them.
ChangePasswordInputs(cookie) ==
    IF cookie \in DOMAIN session /\ session[cookie].user_id \in UserIds
    THEN TypedPasswords(user[session[cookie].user_id].password_hash)
         \X NewAndConfirm
    ELSE {<<"p", <<"p", "p">>>>}

\* username and password of a login request; an unknown username is
\* answered before the password is read
LoginInputs ==
    {x \in Emails \X Passwords :
        IF UserByName(x[1]) = 0 THEN x[2] = "p"
        ELSE x[2] \in TypedPasswords(user[UserByName(x[1])].password_hash)}

\* the data of an add-user request for an active, non-admin account
PlainUser == [full_name : FullNames, email : Emails \ {ADMIN_EMAIL},
              role : {"user"}, status : {TRUE}]

AdminRequests ==
    \/ \E data \in AddUser, smtp_ok \in Delivered : add_user(data, smtp_ok)
    \/ list_users
    \/ \E user_id \in PathUserIds, data \in AddUser : edit_user(user_id, data)

LoginRequests ==
    \E x \in LoginInputs : login(x[1], x[2])

SessionRequests ==
    \/ \E cookie \in Cookies : read_current_user(cookie)
    \/ \E cookie \in Cookies : auth_router_logout(cookie)
    \/ \E cookie \in Cookies : router_logout(cookie)

ChangePasswordRequests ==
    \/ \E cookie \in Cookies : \E pw \in ChangePasswordInputs(cookie) :
           auth_router_change_password(cookie, pw[1], pw[2][1], pw[2][2])
    \/ \E cookie \in Cookies : \E pw \in ChangePasswordInputs(cookie) :
           router_change_password(cookie, pw[1], pw[2][1], pw[2][2])

ResetRequests ==
    \/ \E email \in Emails, smtp_ok \in Delivered : forgot_password(email, smtp_ok)
    \/ \E token \in TokenIds, new_password \in UserPasswords :
           auth_router_reset_password(token, new_password)
    \/ \E token \in TokenIds, new_password \in UserPasswords :
           router_reset_password(token, new_password)

NextAdmin ==
    \/ \E smtp_ok \in Delivered : startup_event(smtp_ok)
    \/ AdminRequests
    \/ LoginRequests
    \/ \E cookie \in Cookies : read_current_user(cookie)

SpecAdmin == Init /\ [][NextAdmin]_vars

\* the data of an edit-user request that leaves the account's role as it is
SameRoleEdit(user_id) ==
    {data \in AddUser :
        user_id \in UserIds =>
            data.role = default_roles[user[user_id].role_id]}

NextPasswords ==
    \/ \E smtp_ok \in Delivered : startup_event(smtp_ok)
    \/ \E data \in PlainUser, smtp_ok \in Delivered : add_user(data, smtp_ok)
    \/ \E user_id \in PathUserIds : \E data \in SameRoleEdit(user_id) :
           edit_user(user_id, data)
    \/ LoginRequests
    \/ ChangePasswordRequests
    \/ ResetRequests

SpecPasswords == Init /\ [][NextPasswords]_vars

NextValidate ==
    \/ \E smtp_ok \in Delivered : startup_event(smtp_ok)
    \/ \E data \in PlainUser, smtp_ok \in Delivered : add_user(data, smtp_ok)
    \/ LoginRequests
    \/ SessionRequests
    \/ cleanup_expired_sessions
    \/ Tick

SpecValidate == Init /\ [][NextValidate]_vars

\* the same requests, under any value the environment may give
\* SESSION_TIMEOUT_MINUTES
InitEnv ==
    /\ started = FALSE
    /\ user = <<>>
    /\ user_detail = <<>>
    /\ session = <<>>
    /\ password_reset_token = {}
    /\ token_seq = 0
    /\ now = 0
    /\ SESSION_TIMEOUT_MINUTES \in TimeoutChoices
    /\ history = [pw_origin |-> <<>>, used |-> {}]
    /\ last = Response("init", 0, "-", 0)
    /\ inflight = {}
    /\ InitSide

SpecEnv == InitEnv /\ [][NextValidate]_vars

NextSession ==
    \/ \E smtp_ok \in Delivered : startup_event(smtp_ok)
    \/ \E data \in PlainUser, smtp_ok \in Delivered : add_user(data, smtp_ok)
    \/ LoginRequests
    \/ SessionRequests
    \/ ChangePasswordRequests
    \/ cleanup_expired_sessions
    \/ Tick

SpecSession == Init /\ [][NextSession]_vars

NextReset ==
    \/ \E smtp_ok \in Delivered : startup_event(smtp_ok)
    \/ LoginRequests
    \/ ResetRequests
    \/ Tick

SpecReset == Init /\ [][NextReset]_vars

\* the data of an edit-user request that keeps the account's role and
\* leaves it active: a change of name or of email (a temp-password re-issue)
KeepActive(user_id) == {data \in SameRoleEdit(user_id) : data.status}

NextCredentials ==
    \/ \E smtp_ok \in Delivered : startup_event(smtp_ok)
    \/ \E data \in PlainUser, smtp_ok \in Delivered : add_user(data, smtp_ok)
    \/ \E user_id \in PathUserIds : \E data \in KeepActive(user_id) :
           edit_user(user_id, data)
    \/ LoginRequests
    \/ ChangePasswordRequests
    \/ ResetRequests

SpecCredentials == Init /\ [][NextCredentials]_vars

\* the admin routes alone
NextDirectory ==
    \/ \E smtp_ok \in Delivered : startup_event(smtp_ok)
    \/ AdminRequests

SpecDirectory == Init /\ [][NextDirectory]_vars

\* the service function update_user called with either value of
\* reset_temp_password, among logins
NextService ==
    \/ \E smtp_ok \in Delivered : startup_event(smtp_ok)
    \/ \E data \in PlainUser, smtp_ok \in Delivered : add_user(data, smtp_ok)
    \/ \E user_id \in PathUserIds, reset_temp_password \in BOOLEAN :
           \E data \in SameRoleEdit(user_id) :
               call_update_user(user_id, data, reset_temp_password)
    \/ LoginRequests

SpecService == Init /\ [][NextService]_vars

\* The running application: app.py mounts the router and runs
\* startup_event; utils/scheduler.py is imported by no module and
\* scheduler.start() is called nowhere, so the registered job
\* cleanup_expired_sessions never fires.  The clock keeps advancing.
NextApp ==
    \/ \E smtp_ok \in Delivered : startup_event(smtp_ok)
    \/ LoginRequests
    \/ SessionRequests
    \/ Tick

SpecApp == Init /\ [][NextApp]_vars /\ WF_vars(Tick)

\* The application as it would run with the scheduler started: the job
\* fires again and again.
SpecSweeping ==
    /\ Init
    /\ [][NextApp \/ cleanup_expired_sessions]_vars
    /\ WF_vars(Tick)
    /\ WF_vars(cleanup_expired_sessions)

\* the requests that send email, with the relay up or down
NextMail ==
    \/ \E smtp_ok \in MailOutcomes : startup_event(smtp_ok)
    \/ \E data \in PlainUser, smtp_ok \in MailOutcomes : add_user(data, smtp_ok)
    \/ \E email \in Emails, smtp_ok \in MailOutcomes : forgot_password(email, smtp_ok)
    \/ LoginRequests

SpecMail == Init /\ [][NextMail]_vars

\* create_user and update_user calls racing for the emails
RaceUser == [full_name : FullNames, email : RaceEmails,
             role : {"user"}, status : {TRUE}]

RaceEdit(user_id) ==
    {data \in [full_name : FullNames, email : RaceEmails,
               role : RoleNames \ {"ghost"}, status : {TRUE}] :
        user_id \in UserIds =>
            data.role = default_roles[user[user_id].role_id]}

NextRace ==
    \/ \E smtp_ok \in Delivered : startup_event(smtp_ok)
    \/ \E data \in RaceUser : begin_create_user(data)
    \/ \E r \in inflight : commit_create_user(r)
    \/ \E user_id \in UserIds : \E data \in RaceEdit(user_id) :
           begin_update_user(user_id, data, FALSE)
    \/ \E r \in inflight : commit_update_user(r)

SpecRace == Init /\ [][NextRace]_vars

\* uploads and deletions, with every outcome of the object store, the
\* database and the AI backend
NextFiles ==
    \/ \E smtp_ok \in Delivered : startup_event(smtp_ok)
    \/ \E file \in Files, upload \in UploadOutcomes :
          \E callback \in CallbackOutcomes : upload_pdf(file, upload, callback)
    \/ \E resource_id \in ResourceIds, s3_deleted \in BOOLEAN :
          \E pinecone_ok \in BOOLEAN :
             delete_resource(resource_id, s3_deleted, pinecone_ok)

SpecFiles == Init /\ [][NextFiles]_vars

\* logins to accounts of either status
EitherStatus == [full_name : FullNames, email : Emails \ {ADMIN_EMAIL},
                 role : {"user"}, status : BOOLEAN]

NextLogin ==
    \/ \E smtp_ok \in Delivered : startup_event(smtp_ok)
    \/ \E data \in EitherStatus, smtp_ok \in Delivered : add_user(data, smtp_ok)
    \/ LoginRequests
    \/ Tick

SpecLogin == Init /\ [][NextLogin]_vars

\* change-password requests through live and logged-out sessions
NextChange ==
    \/ \E smtp_ok \in Delivered : startup_event(smtp_ok)
    \/ LoginRequests
    \/ \E cookie \in Cookies : auth_router_logout(cookie)
    \/ ChangePasswordRequests

SpecChange == Init /\ [][NextChange]_vars

\* the calls of a ConnectionManager
NextManager ==
    \/ \E websocket \in WebSockets, topic \in Topics \cup {None} :
          \E accepted \in BOOLEAN : connect(websocket, topic, accepted)
    \/ \E websocket \in WebSockets, topic \in Topics \cup {None} :
          disconnect(websocket, topic)
    \/ \E topic \in Topics \cup {"default"}, message \in Messages :
          \E broken \in SUBSET WebSockets : broadcast(topic, message, broken)

SpecManager == Init /\ [][NextManager]_vars

\* the two dashboard handlers over every table and clock of the bounds
InitDashboard ==
    /\ started = FALSE
    /\ user = <<>>
    /\ user_detail = <<>>
    /\ session = <<>>
    /\ password_reset_token = {}
    /\ token_seq = 0
    /\ now = 0
    /\ SESSION_TIMEOUT_MINUTES = SessionAgeLimit
    /\ history = [pw_origin |-> <<>>, used |-> {}]
    /\ last = Response("init", 0, "-", 0)
    /\ inflight = {}
    /\ s3 = {}
    /\ file_uploads = {}
    /\ file_uploads_id_seq = 0
    /\ active_connections = [key \in {} |-> <<>>]
    /\ wire = [tried |-> <<>>, sent |-> {}]
    /\ \E sessions \in DashTables(MaxRows), clock \in DashClocks :
          dash = [sessions |-> sessions, clock |-> clock,
                  rest |-> NoPayload, ws |-> NoPayload]

NextDashboard ==
    \/ average_session_length
    \/ ws_average_session_length

SpecDashboard == InitDashboard /\ [][NextDashboard]_vars

\* sessions ended by logout, end_session, validation and a sweep that
\* other requests run through
NextEnding ==
    \/ \E smtp_ok \in Delivered : startup_event(smtp_ok)
    \/ LoginRequests
    \/ \E cookie \in Cookies : read_current_user(cookie)
    \/ \E cookie \in Cookies : auth_router_logout(cookie)
    \/ \E uuid \in Cookies : end_session(uuid)
    \/ begin_cleanup_expired_sessions
    \/ \E r \in inflight : commit_cleanup_expired_sessions(r)
    \/ Tick

SpecEnding == Init /\ [][NextEnding]_vars

\* reset-password requests, each in its own database session, that run
\* between each other's steps
NextResetRace ==
    \/ \E smtp_ok \in Delivered : startup_event(smtp_ok)
    \/ \E email \in Emails, smtp_ok \in Delivered : forgot_password(email, smtp_ok)
    \/ \E token \in TokenIds, new_password \in UserPasswords :
          begin_reset_password(token, new_password)
    \/ \E r \in inflight : commit_reset_password(r)
    \/ Tick

SpecResetRace == Init /\ [][NextResetRace]_vars

\* logins that run between their two steps into edits of the account
NextLoginRace ==
    \/ \E smtp_ok \in Delivered : startup_event(smtp_ok)
    \/ \E x \in LoginInputs : begin_login(x[1], x[2])
    \/ \E r \in inflight : commit_login(r)
    \/ \E user_id \in PathUserIds : \E data \in SameRoleEdit(user_id) :
          edit_user(user_id, data)

SpecLoginRace == Init /\ [][NextLoginRace]_vars

\* one broadcast at a time; sockets connect while none runs and
\* disconnect at any time, between the sends of a broadcast too
NextSending ==
    \/ \E websocket \in WebSockets, topic \in Topics \cup {None} :
          \E accepted \in BOOLEAN :
             inflight = {} /\ connect(websocket, topic, accepted)
    \/ \E websocket \in WebSockets, topic \in Topics \cup {None} :
          disconnect(websocket, topic)
    \/ \E topic \in Topics \cup {"default"}, message \in Messages :
          inflight = {} /\ begin_broadcast(topic, message)
    \/ \E r \in inflight, raised \in BOOLEAN : send_broadcast(r, raised)
    \/ \E r \in inflight : end_broadcast(r)

SpecSending == Init /\ [][NextSending]_vars

\* dashboard sockets that present the cookies of live, ended, expired
\* and absent sessions
NextSockets ==
    \/ \E smtp_ok \in Delivered : startup_event(smtp_ok)
    \/ LoginRequests
    \/ \E cookie \in Cookies : auth_router_logout(cookie)
    \/ \E websocket \in WebSockets, cookie \in Cookies :
          \E accepted \in BOOLEAN : connect_ws(websocket, cookie, accepted)
    \/ \E r \in inflight, peer_gone \in BOOLEAN : ws_send(r, peer_gone)
    \/ Tick

SpecSockets == Init /\ [][NextSockets]_vars

\* every operation of the program, each request taken as one step
Next ==
    \/ \E smtp_ok \in Delivered : startup_event(smtp_ok)
    \/ AdminRequests
    \/ LoginRequests
    \/ SessionRequests
    \/ ChangePasswordRequests
    \/ ResetRequests
    \/ cleanup_expired_sessions
    \/ Tick
    \/ \E file \in Files, upload \in UploadOutcomes :
          \E callback \in CallbackOutcomes : upload_pdf(file, upload, callback)
    \/ \E resource_id \in ResourceIds, s3_deleted \in BOOLEAN :
          \E pinecone_ok \in BOOLEAN :
             delete_resource(resource_id, s3_deleted, pinecone_ok)
    \/ \E websocket \in WebSockets, topic \in Topics \cup {None} :
          \E accepted \in BOOLEAN : connect(websocket, topic, accepted)
    \/ \E websocket \in WebSockets, topic \in Topics \cup {None} :
          disconnect(websocket, topic)
    \/ \E topic \in Topics \cup {"default"}, message \in Messages :
          \E broken \in SUBSET WebSockets : broadcast(topic, message, broken)
    \/ average_session_length
    \/ ws_average_session_length
    \/ \E uuid \in Cookies : end_session(uuid)
    \/ \E websocket \in WebSockets, cookie \in Cookies :
          \E accepted \in BOOLEAN : connect_ws(websocket, cookie, accepted)
    \/ \E r \in inflight, peer_gone \in BOOLEAN : ws_send(r, peer_gone)

Spec == Init /\ [][Next]_vars

\* ------------------------------------------------------------- claims
\* Every action writes its own name to last.op, so a step that changes the
\* state and leaves last'.op = X is a step of handler X.

AdminRoutes == {"add_user", "list_users", "edit_user"}

\* C1: every admin-only route (add-user, list users, edit user) answers a
\* request without a valid session with 401 and a request of a non-admin
\* with 403, and in both cases creates or modifies no user.  Whatever
\* cookie c the request carries, if admin_required(c) rejects it the
\* route answers with that status and the user tables stay as they were.
C1_AdminRoutesGated ==
    [][\A c \in Cookies :
          (last'.op \in AdminRoutes /\ admin_required(c).code # 200)
          => /\ last'.code = admin_required(c).code
             /\ user' = user
             /\ user_detail' = user_detail]_vars

\* session c is active and not older than the age limit
Live(c) ==
    /\ ActiveSession(c)
    /\ now - session[c].start_time <= SessionAgeLimit

\* C2: a session created by create_session(u), validated with its token
\* before any operation ends it and before its age exceeds the timeout,
\* resolves to user u with u's role: a successful login appends a session
\* row of the user it authenticated, no step rewrites the user or start
\* time of a row, and get_current_user on a live session answers 200 with
\* that row's user and role and leaves the sessions alone.
C2_SessionResolvesToItsUser ==
    [][/\ (last'.op = "login" /\ last'.code = 200)
          => /\ session' = create_session(last'.who)
             /\ last'.who \in UserIds
       /\ \A c \in DOMAIN session :
             /\ c \in DOMAIN session'
             /\ session'[c].user_id = session[c].user_id
             /\ session'[c].start_time = session[c].start_time
       /\ \A c \in SessionIds :
             (read_current_user(c) /\ Live(c))
             => /\ last'.code = 200
                /\ last'.who = session[c].user_id
                /\ last'.role = default_roles[user[session[c].user_id].role_id]
                /\ session' = session]_vars

\* C2 witness: the second user's session, as old as the limit allows, has
\* just been validated and resolved to the second user, while the first
\* user holds an active session too.
C2_Witness ==
    /\ last.op = "get_current_user"
    /\ last.code = 200
    /\ last.who = 2
    /\ last.key \in DOMAIN session
    /\ session[last.key].user_id = 2
    /\ now - session[last.key].start_time = SessionAgeLimit
    /\ \E c \in DOMAIN session : session[c].user_id = 1 /\ ActiveSession(c)

\* C3: validating an active session older than the configured timeout
\* (SESSION_TIMEOUT_MINUTES) fails with 401 "Session expired" and sets its
\* end_time; a session no older than the configured timeout is never
\* expired by validation.
C3_ValidationUsesConfiguredTimeout ==
    [][\A c \in SessionIds :
          (read_current_user(c) /\ ActiveSession(c))
          => IF now - session[c].start_time > SESSION_TIMEOUT_MINUTES
             THEN /\ last'.code = 401
                  /\ last'.detail = "Session expired"
                  /\ session'[c].end_time # NULL
             ELSE /\ last'.detail # "Session expired"
                  /\ session'[c].end_time = NULL]_vars

\* session c exists and is ended or older than the age limit
Dead(c) ==
    /\ c \in DOMAIN session
    /\ \/ session[c].end_time # NULL
       \/ now - session[c].start_time > SessionAgeLimit

\* C4: every handler that authenticates by the session cookie
\* (get_current_user and change-password) answers 401 to a session whose
\* end_time is set or whose age exceeds the timeout, swept or not, and
\* changes no password on its behalf.
C4_DeadSessionRejected ==
    [][\A c \in SessionIds :
          Dead(c) =>
            /\ read_current_user(c) => last'.code = 401
            /\ \A pw \in ChangePasswordInputs(c) :
                  (\/ auth_router_change_password(c, pw[1], pw[2][1],
                                                  pw[2][2])
                   \/ router_change_password(c, pw[1], pw[2][1], pw[2][2]))
                  => /\ last'.code = 401
                     /\ user' = user]_vars

\* C5: once a reset-password with token t has succeeded, every later
\* reset-password with t answers 400 and changes no password, no
\* temp-password flag and no session.
C5_ResetTokenSingleUse ==
    [][\A t \in history.used :
          \A new_password \in UserPasswords :
             (\/ auth_router_reset_password(t, new_password)
              \/ router_reset_password(t, new_password))
             => /\ last'.code = 400
                /\ user' = user
                /\ session' = session]_vars

\* C5 witness: a reset-password with an already consumed token has just
\* been refused.
C5_Witness ==
    /\ last.op = "reset_password"
    /\ last.key \in history.used
    /\ last.code = 400
    /\ last.detail = "Invalid reset token"

\* C6: a reset-password with a token whose expiration is earlier than now
\* answers 400, deletes the token row, and leaves the owner's password
\* hash, temp-password flag and sessions unchanged.
C6_ExpiredTokenDeleted ==
    [][\A t \in TokenIds :
          \A new_password \in UserPasswords :
             (/\ \E r \in reset_rec(t) : r.expiration < now
              /\ \/ auth_router_reset_password(t, new_password)
                 \/ router_reset_password(t, new_password))
             => /\ last'.code = 400
                /\ \A r \in password_reset_token' : r.token # t
                /\ user' = user
                /\ session' = session]_vars

\* C6 witness: a reset-password has just been refused for expiry, the row
\* of its token is gone, and the token was never consumed by a reset.
C6_Witness ==
    /\ last.op = "reset_password"
    /\ last.code = 400
    /\ last.detail = "Reset token has expired"
    /\ last.key \in TokenIds
    /\ reset_rec(last.key) = {}
    /\ last.key \notin history.used
    /\ \E c \in DOMAIN session : ActiveSession(c)

\* C7: a reset-password with a matching, non-expired token sets the
\* user's password to the new one, clears is_temp_password, deletes the
\* token row, and leaves that user with no active session.
C7_ResetEndsSessions ==
    [][\A t \in TokenIds :
          \A new_password \in UserPasswords :
             (/\ \E r \in reset_rec(t) :
                    r.expiration >= now /\ r.user_id \in UserIds
              /\ \/ auth_router_reset_password(t, new_password)
                 \/ router_reset_password(t, new_password))
             => LET u == (CHOOSE r \in reset_rec(t) : TRUE).user_id
                IN /\ last'.code = 200
                   /\ verify_password(new_password, user'[u].password_hash)
                   /\ ~user'[u].is_temp_password
                   /\ \A r \in password_reset_token' : r.token # t
                   /\ \A i \in DOMAIN session' :
                         session'[i].user_id = u
                         => session'[i].end_time # NULL]_vars

\* C8: a successful change-password ends every session of that user that
\* was active (end_time = now), the requesting one included, and leaves
\* the sessions of every other user unchanged.
C8_ChangePasswordEndsSessions ==
    [][(last'.op = "change_password" /\ last'.code = 200)
       => /\ DOMAIN session' = DOMAIN session
          /\ \A i \in DOMAIN session :
                IF session[i].user_id = last'.who
                   /\ session[i].end_time = NULL
                THEN session'[i] = [session[i] EXCEPT !.end_time = now]
                ELSE session'[i] = session[i]]_vars

\* C9: after a successful change-password from p to a different q, login
\* with (username, p) answers 401 and login with (username, q) succeeds;
\* and no step other than a change-password, a reset-password or an
\* admin re-issue of the temporary password makes a password valid that
\* was not.
C9_OldPasswordRetired ==
    [][/\ \A c \in SessionIds :
          \A p \in Passwords, q \in UserPasswords :
             (/\ p # q
              /\ \/ auth_router_change_password(c, p, q, q)
                 \/ router_change_password(c, p, q, q)
              /\ last'.code = 200)
             => LET u == session[c].user_id
                IN /\ login_user(user[u].username, p)'.code = 401
                   /\ login_user(user[u].username, q)'.code = 200
       /\ \A u \in UserIds :
          \A p \in Passwords :
             (/\ ~verify_password(p, user[u].password_hash)
              /\ verify_password(p, user'[u].password_hash))
             => last'.op \in {"change_password", "reset_password",
                              "edit_user"}]_vars

\* C10: in every state is_temp_password of a user is TRUE exactly when the
\* user's current password is system-generated (written by create_user,
\* the initial-admin creation or a re-issue of update_user) and not since
\* replaced through change-password or reset-password; and a successful
\* login returns redirect_to_change_password: true exactly then.
C10_TempFlagTracksOrigin ==
    /\ Len(history.pw_origin) = Len(user)
    /\ \A u \in UserIds :
          user[u].is_temp_password = (history.pw_origin[u] = "system")
    /\ (last.op = "login" /\ last.code = 200)
       => last.redirect = (history.pw_origin[last.who] = "system")

\* C10 witness: a user whose password came from change-password or
\* reset-password has just logged in and was not redirected, while another
\* user still holds a system-generated password.
C10_Witness ==
    /\ last.op = "login"
    /\ last.code = 200
    /\ ~last.redirect
    /\ history.pw_origin[last.who] = "user"
    /\ \E v \in UserIds : v # last.who /\ history.pw_origin[v] = "system"

C12_EmailClashConflict ==
    [][\A A \in UserIds :
       \A data \in AddUser :
          (/\ edit_user(A, data)
           /\ DetailOf(A) # 0
           /\ \E B \in UserIds \ {A} : user[B].username = data.email)
          => /\ last'.code = 409
             /\ user' = user
             /\ user_detail' = user_detail
             /\ session' = session]_vars

\* C14: a successful update_user that changes the user's email, or that
\* is called with reset_temp_password = true, issues a new temporary
\* password (is_temp_password becomes true, the previous password no
\* longer verifies) and ends all of that user's active sessions.
C14_ReissueEndsSessions ==
    [][\A u \in UserIds :
       \A reset_temp_password \in BOOLEAN :
       \A data \in AddUser :
          (/\ call_update_user(u, data, reset_temp_password)
           /\ last'.code = 200
           /\ (user[u].username # data.email \/ reset_temp_password))
          => /\ user'[u].is_temp_password
             /\ \A pw \in Passwords :
                   verify_password(pw, user[u].password_hash)
                   => ~verify_password(pw, user'[u].password_hash)
             /\ \A i \in DOMAIN session' :
                   session'[i].user_id = u => session'[i].end_time # NULL]_vars

\* C15: a successful update_user that sets a user's status to inactive
\* ends all of that user's active sessions and has a notification email
\* to that user sent or enqueued in the same request.
C15_DeactivationNotifies ==
    [][\A u \in UserIds :
       \A data \in AddUser :
          (/\ edit_user(u, data)
           /\ last'.who = u
           /\ ~data.status)
          => /\ ~user'[u].status
             /\ \A i \in DOMAIN session' :
                   session'[i].user_id = u => session'[i].end_time # NULL
             /\ last'.mail \cap {user[u].username, data.email} # {}]_vars

\* C16: one run of cleanup_expired_sessions sets end_time = start_time +
\* timeout for exactly the sessions that are active and have start_time <
\* now - timeout; every other session row (already ended, or not older
\* than the timeout) is left unchanged.
C16_SweepFrame ==
    [][last'.op = "cleanup_expired_sessions"
       => /\ DOMAIN session' = DOMAIN session
          /\ \A i \in DOMAIN session :
                IF /\ session[i].end_time = NULL
                   /\ session[i].start_time < now - SESSION_TIMEOUT_MINUTES
                THEN session'[i] =
                        [session[i] EXCEPT !.end_time =
                            session[i].start_time + SESSION_TIMEOUT_MINUTES]
                ELSE session'[i] = session[i]]_vars

\* C16 witness: after a run of the sweep one session older than the
\* timeout is closed at start_time + timeout, and another, exactly as old
\* as the timeout, is still active.
C16_Witness ==
    /\ last.op = "cleanup_expired_sessions"
    /\ \E i, j \in DOMAIN session :
          /\ session[i].start_time < now - SESSION_TIMEOUT_MINUTES
          /\ session[i].end_time =
                 session[i].start_time + SESSION_TIMEOUT_MINUTES
          /\ session[j].start_time = now - SESSION_TIMEOUT_MINUTES
          /\ session[j].end_time = NULL

\* C17: every session is eventually ended: a session that is never
\* logged out and never presented again is closed by the periodic sweep
\* once its age exceeds the timeout.  (Stated for the sessions whose
\* timeout falls before the last instant of the clock.)
C17_SessionsEventuallyEnd ==
    \A c \in SessionIds :
        (/\ ActiveSession(c)
         /\ session[c].start_time + SESSION_TIMEOUT_MINUTES < MaxTime)
        ~> ~ActiveSession(c)

\* C18: a failure of email delivery never fails the operation that
\* triggered it: when send_email raises, initial-admin creation, add-user
\* and forgot-password answer and write what they do when it delivers.
C18_MailFailureHarmless ==
    [][/\ startup_event(FALSE)
          => LET r == create_initial_admin_if_needed(
                          generate_temp_password(<<>>), TRUE)
             IN /\ last'.code = 200
                /\ started'
                /\ user' = r.user
                /\ user_detail' = r.user_detail
       /\ \A data \in AddUser :
             add_user(data, FALSE) => add_user(data, TRUE)
       /\ \A email \in Emails :
             forgot_password(email, FALSE) => forgot_password(email, TRUE)]_vars

\* C19: forgot-password for an email of no user answers 404, adds no token
\* and sends no email; for the email of a user it adds exactly one token
\* row, of that user, expiring one token lifetime from now, and the reset
\* email goes to that address only, with the row persisted.
C19_ForgotPassword ==
    [][\A email \in Emails, smtp_ok \in MailOutcomes :
          forgot_password(email, smtp_ok) =>
             IF UserByEmail(email) = 0
             THEN /\ last'.code = 404
                  /\ password_reset_token' = password_reset_token
                  /\ last'.mail = {}
             ELSE /\ last'.code = 200
                  /\ \E r \in password_reset_token' \ password_reset_token :
                        /\ password_reset_token' =
                               password_reset_token \cup {r}
                        /\ r.user_id = UserByEmail(email)
                        /\ r.expiration = now + ResetTokenLifetime
                  /\ last'.mail = {email}]_vars

\* a token was just issued to a user and the reset email enqueued
C19_Witness ==
    /\ last.op = "forgot_password"
    /\ last.code = 200
    /\ last.mail # {}
    /\ \E r \in password_reset_token :
          r.user_id = last.who /\ r.expiration = now + ResetTokenLifetime

\* C20: a successful login adds exactly one session row, active (end_time
\* null), of the user who logged in and started now, and leaves every
\* existing row as it was; each earlier session, of that user too, then
\* validates as it did before, and the new one validates on its own.
C20_LoginAddsOneSession ==
    [][\A x \in Emails \X Passwords :
          (login(x[1], x[2]) /\ login_user(x[1], x[2]).code = 200) =>
             \E u \in UserIds, n \in SessionIds :
                /\ u = login_user(x[1], x[2]).id
                /\ n = Len(session) + 1
                /\ Len(session') = n
                /\ \A c \in DOMAIN session : session'[c] = session[c]
                /\ session'[n].user_id = u
                /\ session'[n].end_time = NULL
                /\ session'[n].start_time = now
                /\ \A c \in DOMAIN session :
                      get_current_user(c)' = get_current_user(c)
                /\ get_current_user(n)'.code = 200
                /\ get_current_user(n)'.id = u]_vars

\* the second login of one user has just been served while the first
\* session of that user is active and still validates
C20_Witness ==
    /\ last.op = "login"
    /\ last.code = 200
    /\ Len(session) = 2
    /\ \A c \in DOMAIN session :
          /\ session[c].user_id = last.who
          /\ get_current_user(c).code = 200
          /\ get_current_user(c).id = last.who
    /\ session[1].start_time < session[2].start_time

C21_RoleNotFoundCreatesNothing ==
    [][\A data \in AddUser :
          (add_user(data, TRUE) /\ existing_admin # {}) =>
             /\ RoleIdOf(data.role) = 0
                => /\ last'.code = 400
                   /\ last'.detail = "Role not found"
                   /\ user' = user
                   /\ user_detail' = user_detail
                   /\ last'.mail = {}
             /\ data.email \in last'.mail
                => /\ last'.code = 200
                   /\ Len(user') = Len(user) + 1
                   /\ Len(user_detail') = Len(user_detail) + 1
                   /\ user'[Len(user')].username = data.email
                   /\ user_detail'[Len(user_detail')].email = data.email
                   /\ user_detail'[Len(user_detail')].user_id = Len(user')
             /\ last'.code = 200 => last'.mail = {data.email}]_vars

\* add-user has just been refused for an unknown role while the admin is
\* the only account
C21_Witness ==
    /\ last.op = "add_user"
    /\ last.code = 400
    /\ last.detail = "Role not found"
    /\ last.mail = {}
    /\ existing_admin # {}
    /\ Len(user) = 1
    /\ Len(user_detail) = 1

\* C22: delete-resource deletes the file_uploads row only after the
\* object-store deletion has succeeded: when delete_file_from_s3 fails the
\* answer is 500 and the row is still there; when no row has the id the
\* answer is 404 and neither a row nor an object is deleted; and a row
\* leaves the table only with its object gone from the bucket.
C22_RowDeletedAfterObject ==
    [][\A resource_id \in ResourceIds, s3_deleted \in BOOLEAN :
       \A pinecone_ok \in BOOLEAN :
          delete_resource(resource_id, s3_deleted, pinecone_ok) =>
             /\ ResourceRow(resource_id) = {}
                => /\ last'.code = 404
                   /\ file_uploads' = file_uploads
                   /\ s3' = s3
             /\ (ResourceRow(resource_id) # {} /\ ~s3_deleted)
                => /\ last'.code = 500
                   /\ last'.detail = "Failed to delete file from S3"
                   /\ file_uploads' = file_uploads
             /\ \A row \in file_uploads \ file_uploads' :
                   /\ s3_deleted
                   /\ row.id = resource_id
                   /\ row.file_name \notin s3']_vars

\* the object store has just refused a deletion: the answer is 500 and the
\* row asked for is in the table, its object in the bucket
C22_Witness ==
    /\ last.op = "delete_resource"
    /\ last.code = 500
    /\ last.detail = "Failed to delete file from S3"
    /\ \E row \in file_uploads :
          row.id = last.key /\ row.file_name \in s3

\* C23: when upload-pdf has stored the object and inserted the metadata row
\* and the callback to the AI backend then fails (another status than 200,
\* a timeout, a connection error, any other exception), the object and
\* the row stay stored and the answer names the callback failure, which
\* no failure of the upload itself is answered with.
C23_CallbackFailureKeepsUpload ==
    [][\A file \in Files, upload \in UploadOutcomes :
       \A callback \in CallbackOutcomes :
          upload_pdf(file, upload, callback) =>
             /\ (file.ext = ".pdf" /\ ~file.big /\ upload = "ok"
                    /\ callback # "200")
                => /\ \E key \in s3' \ s3 :
                         /\ s3' = s3 \cup {key}
                         /\ \E row \in file_uploads' \ file_uploads :
                               /\ file_uploads' = file_uploads \cup {row}
                               /\ row.file_name = key
                   /\ last'.code = 500
                   /\ last'.detail = CallbackDetail(callback)
                   /\ last'.detail # "File upload failed"
             /\ (file.ext = ".pdf" /\ (file.big \/ upload # "ok"))
                => /\ last'.code = 500
                   /\ last'.detail = "File upload failed"
                   /\ file_uploads' = file_uploads]_vars

\* the callback has just timed out after an upload: the row and the object
\* of that upload are stored
C23_Witness ==
    /\ last.op = "upload_pdf"
    /\ last.code = 500
    /\ last.detail = "AI backend request timed out"
    /\ \E row \in file_uploads :
          row.id = last.key /\ row.file_name \in s3

\* C24: logout with cookie token t sets end_time = now on the active
\* session whose token is t and on no other row (other tokens, other
\* active sessions of the same user, ended sessions stay as they are), and
\* a logout without a cookie answers 401 and changes nothing.
C24_LogoutEndsOnlyItsSession ==
    [][\A cookie \in Cookies :
          (auth_router_logout(cookie) \/ router_logout(cookie)) =>
             /\ DOMAIN session' = DOMAIN session
             /\ \A i \in DOMAIN session :
                   IF i = cookie /\ session[i].end_time = NULL
                   THEN session'[i] = [session[i] EXCEPT !.end_time = now]
                   ELSE session'[i] = session[i]
             /\ cookie = NoCookie
                => /\ last'.code = 401
                   /\ session' = session]_vars

\* C25: a login that fails creates no session row and sets no cookie; the
\* username of no user and a password the stored hash does not verify are
\* answered 401, an inactive account 403 whatever the password.
C25_FailedLoginCreatesNothing ==
    [][\A x \in Emails \X Passwords :
          login(x[1], x[2]) =>
             LET u == UserByName(x[1])
             IN /\ u = 0 => last'.code = 401
                /\ (u # 0 /\ ~user[u].status) => last'.code = 403
                /\ (u # 0 /\ user[u].status
                       /\ ~verify_password(x[2], user[u].password_hash))
                   => last'.code = 401
                /\ last'.code # 200
                   => /\ session' = session
                      /\ last'.key = NoCookie]_vars

\* a login to an inactive account has just been refused while another
\* account holds the only session
C25_Witness ==
    /\ last.op = "login"
    /\ last.code = 403
    /\ last.key = NoCookie
    /\ \E u \in UserIds : ~user[u].status
    /\ Len(session) = 1

\* C26: create_initial_admin_if_needed, called by startup and by every
\* add-user request, creates the admin's rows and sends the admin's email
\* only when no user has the admin role: with an admin in the table a
\* startup writes nothing and sends nothing and an add-user request
\* writes and mails nothing but the user it was asked for; and at most one
\* initial admin is ever created, that is, none is created once the user
\* table has a row.
C26_InitialAdminOnce ==
    [][/\ (startup_event(TRUE) /\ existing_admin # {})
          => /\ user' = user
             /\ user_detail' = user_detail
             /\ last'.mail = {}
       /\ \A data \in AddUser :
             add_user(data, TRUE) =>
                /\ existing_admin # {}
                   => /\ \A u \in DOMAIN user' \ DOMAIN user :
                            /\ u = Len(user) + 1
                            /\ user'[u].username = data.email
                      /\ last'.mail \subseteq {data.email}
                /\ (/\ existing_admin = {}
                    /\ \E u \in DOMAIN user' \ DOMAIN user :
                          /\ user'[u].username = ADMIN_EMAIL
                          /\ user'[u].role_id = AdminRoleId)
                   => Len(user) = 0]_vars

\* C30: a change-password request that fails leaves every password hash,
\* every is_temp_password flag and every session as they were; the handler
\* of routes/auth_routes.py fails with 401 without a cookie or without an
\* active session of that token, with 400 for an old password the hash
\* does not verify, and with 400 when new password and confirmation
\* differ.
C30_FailedChangeLeavesAll ==
    [][\A c \in Cookies : \A pw \in ChangePasswordInputs(c) :
          /\ auth_router_change_password(c, pw[1], pw[2][1], pw[2][2])
             => /\ (c = NoCookie \/ ~ActiveSession(c)) => last'.code = 401
                /\ (ActiveSession(c) /\ session[c].user_id \in UserIds)
                   => LET hashed == user[session[c].user_id].password_hash
                      IN /\ ~verify_password(pw[1], hashed)
                            => last'.code = 400
                         /\ pw[2][1] # pw[2][2] => last'.code = 400
                /\ last'.code # 200
                   => /\ user' = user
                      /\ session' = session
          /\ router_change_password(c, pw[1], pw[2][1], pw[2][2])
             => (last'.code # 200
                    => /\ user' = user
                       /\ session' = session)]_vars

\* a request with the right old password and a confirmation that differs
\* has just been refused; the requester's session is active and the
\* password is still the temporary one
C30_Witness ==
    /\ last.op = "change_password"
    /\ last.code = 400
    /\ last.detail = "New passwords do not match"
    /\ last.who \in UserIds
    /\ user[last.who].is_temp_password
    /\ \E c \in DOMAIN session :
          session[c].user_id = last.who /\ ActiveSession(c)

\* C27: broadcast(topic, msg) calls send_json(msg) on every socket in the
\* topic's list and on no socket that is in the lists of other topics
\* only; a socket whose send raises does not keep the message from the
\* topic's other sockets; and the registrations are left as they were.
C27_BroadcastReachesTopic ==
    [][\A topic \in Topics \cup {"default"}, message \in Messages :
       \A broken \in SUBSET WebSockets :
          (last'.op = "broadcast" /\ broadcast(topic, message, broken)) =>
             LET members == IF topic \in DOMAIN active_connections
                            THEN Range(active_connections[topic]) ELSE {}
             IN /\ Range(wire'.tried) = members
                /\ \A ws \in members \ broken :
                      <<ws, message>> \in wire'.sent
                /\ \A ws \in WebSockets \ members :
                      <<ws, message>> \in wire'.sent
                      => <<ws, message>> \in wire.sent
                /\ active_connections' = active_connections]_vars

\* a broadcast to a topic of two sockets has just passed over the first,
\* whose send raised, and reached the second; a socket of another topic
\* only was not tried
C27_Witness ==
    /\ last.op = "broadcast"
    /\ Len(wire.tried) = 2
    /\ wire.tried[1] # wire.tried[2]
    /\ wire.sent = {<<wire.tried[2], "m1">>}
    /\ \E key \in DOMAIN active_connections :
          /\ active_connections[key] # <<>>
          /\ active_connections[key] # wire.tried

\* C28: after disconnect(ws, topic) or disconnect(ws), whatever connect
\* calls came before, ws is in the list of no topic and the lists hold
\* every other socket as before.
C28_DisconnectRemovesEverywhere ==
    [][\A websocket \in WebSockets, topic \in Topics \cup {None} :
          disconnect(websocket, topic) =>
             /\ \A key \in DOMAIN active_connections' :
                   websocket \notin Range(active_connections'[key])
             /\ \A key \in DOMAIN active_connections :
                   SelectSeq(active_connections'[key],
                             LAMBDA ws : ws # websocket)
                   = SelectSeq(active_connections[key],
                               LAMBDA ws : ws # websocket)]_vars


\* C29: for the same rows of the sessions table and the same clock, the
\* REST average-session-length endpoint and one turn of the WebSocket loop
\* produce the same payload: once both have answered for a table and a
\* clock, month, average, minutes and seconds, and percentage change of
\* the two are equal.
C29_SamePayload ==
    (dash.rest # NoPayload /\ dash.ws # NoPayload) => dash.rest = dash.ws


\* C31: once a session's end_time is set, no operation, under any
\* interleaving, changes it again or clears it, and an ended session
\* never validates again: every step leaves the end_time of every ended
\* session as it is, and get_current_user with the token of an ended
\* session answers 401.
C31_EndTimeFinal ==
    [][/\ \A i \in DOMAIN session :
             session[i].end_time # NULL
             => session'[i].end_time = session[i].end_time
       /\ \A c \in DOMAIN session :
             (/\ session[c].end_time # NULL
              /\ last'.op = "get_current_user"
              /\ last'.key = c)
             => last'.code = 401]_vars


\* C32: of two reset-password requests that carry the same valid token
\* and run concurrently, at most one changes the password and the other
\* answers 400: a reset-password never answers 200 for a token that an
\* earlier reset-password has already consumed.
C32_OneResetPerToken ==
    [][(last'.op = "reset_password" /\ last'.code = 200)
       => last'.key \notin history.used]_vars


\* C33: in every reachable state, a login interleaved with a deactivating
\* update_user of the same user included, a user whose status is inactive
\* has no active session: every session row of an inactive user has its
\* end_time set.
C33_InactiveHasNoSession ==
    \A u \in UserIds :
       ~user[u].status
       => \A i \in DOMAIN session :
             session[i].user_id = u => session[i].end_time # NULL


\* C34: in every committed database state every User row has exactly one
\* UserDetail row; user creation is atomic, so neither a failed UserDetail
\* insert nor a request running between the two commits finds a User
\* without its UserDetail.
C34_UserHasOneDetail ==
    \A u \in UserIds :
       Cardinality({d \in DOMAIN user_detail : user_detail[d].user_id = u}) = 1


\* C35: after any sequence of create_user and update_user calls, for
\* every user the status enforced at login (User.status) equals the
\* status the admin user list reports (UserDetail.status).
C35_StatusesAgree ==
    \A u \in UserIds :
       DetailOf(u) # 0 => user[u].status = user_detail[DetailOf(u)].status


\* C36: a successful reset-password deletes only the token row it was
\* given; the other reset tokens of the user stay stored and stay usable
\* until they are consumed or expire, and forgot-password deletes no
\* token: after every step each stored token that has not expired passes
\* the checks of reset-password.
C36_ResetDeletesOnlyItsToken ==
    [][/\ \A t \in TokenIds, new_password \in UserPasswords :
             (/\ last'.op = "reset_password"
              /\ last'.code = 200
              /\ \/ auth_router_reset_password(t, new_password)
                 \/ router_reset_password(t, new_password))
             => password_reset_token' =
                   {r \in password_reset_token : r.token # t}
       /\ last'.op = "forgot_password"
          => password_reset_token \subseteq password_reset_token'
       /\ \A r \in password_reset_token' :
             r.expiration >= now'
             => reset_password_checks(r.token, 404)'.code = 200]_vars

\* C36 witness: a reset-password has just succeeded and another token of
\* the same user is still stored and has not expired.
C36_Witness ==
    /\ last.op = "reset_password"
    /\ last.code = 200
    /\ \E r \in password_reset_token :
          /\ r.user_id = last.who
          /\ r.token # last.key
          /\ r.expiration >= now
          /\ reset_password_checks(r.token, 404).code = 200


\* C37: if a socket is removed from a topic's list while a broadcast to
\* the topic is suspended inside a send, every socket that stays
\* registered under the topic for the whole broadcast still receives the
\* message exactly once: when a broadcast ends, send_json has been called
\* exactly once on every socket that was in the list once when the
\* broadcast began and is in it still (no socket connects while a
\* broadcast runs).
C37_StayingSocketsReceiveOnce ==
    [][\A r \in inflight :
          (last'.op = "broadcast" /\ last'.key = 3 /\ end_broadcast(r))
          => \A ws \in Range(active_connections[r.topic]) :
                Cardinality({i \in DOMAIN r.start : r.start[i] = ws}) = 1
                => Cardinality({i \in DOMAIN r.tried : r.tried[i] = ws}) = 1]_vars


\* the manager holds the socket under some key
Registered(websocket) ==
    \E k \in DOMAIN active_connections :
       websocket \in Range(active_connections[k])

\* C38: a dashboard WebSocket is accepted and registered in the connection
\* manager only after its session has been validated; a socket whose
\* authentication fails is closed with code 1008, is never registered and
\* is never sent dashboard data: a socket becomes registered only in a
\* connect_ws step whose cookie validates, a connect_ws step whose cookie
\* does not validate calls close(1008) and registers and sends nothing,
\* and a refused socket is in no list and has been sent nothing.
C38_OnlyValidatedSocketsServed ==
    [][/\ \A websocket \in WebSockets, cookie \in Cookies :
          \A accepted \in BOOLEAN :
             (/\ last'.op = "connect_ws"
              /\ connect_ws(websocket, cookie, accepted))
             => /\ Registered(websocket)'
                   => get_current_user_ws(cookie).code = 200 /\ accepted
                /\ get_current_user_ws(cookie).code # 200
                   => /\ last'.code = 1008
                      /\ Handler(websocket)' = {[op |-> "ws", websocket |-> websocket, pc |-> "refused"]}
                      /\ UNCHANGED <<active_connections, wire>>
       /\ \A websocket \in WebSockets :
             /\ (~Registered(websocket) /\ Registered(websocket)')
                => last'.op = "connect_ws" /\ last'.code = 200
             /\ (\E r \in Handler(websocket)' : r.pc = "refused")
                => /\ ~Registered(websocket)'
                   /\ \A m \in wire'.sent : m[1] # websocket]_vars

\* C38 witness: a socket that presented the cookie of an ended session has
\* been refused with close(1008) and holds no place in the manager, while
\* another socket of a validated session is registered and has been sent
\* its payload.
C38_Witness ==
    /\ last.op = "connect_ws"
    /\ last.code = 1008
    /\ last.key \in DOMAIN session
    /\ \E refused \in WebSockets, served \in WebSockets :
          /\ Handler(refused) = {[op |-> "ws", websocket |-> refused, pc |-> "refused"]}
          /\ ~Registered(refused)
          /\ Registered(served)
          /\ <<served, "average-session-length">> \in wire.sent

=============================================================================
